---- MODULE Spec2Model ----
(***************************************************************************)
(* Model of the Arch Linux ZFS installer (main.py and utils/*.py).         *)
(*                                                                         *)
(* The installer is one sequential process.  Its state is the five         *)
(* component objects built in main(), the position of main() in its        *)
(* workflow, and the history of the external commands issued so far        *)
(* (every subprocess.run / subprocess.Popen call, with its argument        *)
(* vector, its piped input and whether it exited with status zero).        *)
(* Operator answers and command exit statuses are the inputs; they are     *)
(* chosen nondeterministically where the code asks for them.               *)
(***************************************************************************)
EXTENDS FiniteSets, Integers, Sequences, TLC

VARIABLES
    pc,            \* the handler main() runs next
    stage,         \* the statement of main()'s try block being executed
    raised,        \* exception that left the try block ("" when none)
    exit_code,     \* process exit status, NoExit while running
    cmds,          \* history of external commands
    faults,        \* number of commands that exited non-zero so far
    returned,      \* history: the statements of main() that returned, each
                   \* with the number of commands issued by then
    disk_manager,  \* DiskManager fields
    zfs_manager,   \* ZFSManager fields
    boot_manager,  \* BootManager fields
    system_config, \* SystemConfig fields
    installer,     \* Installer fields
    operator,      \* the answers the operator gives to the prompts of this run
    call           \* a single method called outside a run of main(): its
                   \* arguments, the files it works on and its result

vars == <<pc, stage, raised, exit_code, cmds, faults, returned, disk_manager,
          zfs_manager, boot_manager, system_config, installer, operator, call>>

-----------------------------------------------------------------------------
(* Bounds of the model *)

\* most commands that exit non-zero in one run
MaxFaults == 1

-----------------------------------------------------------------------------
(* Python values *)

None == "<None>"

\* no method is called outside main()
NoCall == [method |-> "main"]
NoExit == -1

\* subprocess call without stdin / with text piped to stdin
Cmd(argv, ok) == [argv |-> argv, piped |-> FALSE, input |-> "", ok |-> ok]
CmdIn(argv, input, ok) == [argv |-> argv, piped |-> TRUE, input |-> input, ok |-> ok]

\* t occurs in s as a substring (Python's "t in s")
Contains(s, t) ==
    \E i \in 1..(Len(s) - Len(t) + 1) : SubSeq(s, i, i + Len(t) - 1) = t

\* os.path.join(root, rel) for a relative second component
PathJoin(root, rel) == root \o "/" \o rel

\* the sets of at most k command positions in lo..hi that exit non-zero
RECURSIVE BadSets(_, _, _)
BadSets(lo, hi, k) ==
    IF k <= 0 THEN {{}}
    ELSE LET S == BadSets(lo, hi, k - 1)
         IN  S \cup {s \cup {a} : s \in S, a \in lo..hi}

-----------------------------------------------------------------------------
(* Execution context of a handler: the command history and the exception   *)
(* in flight ("ok" when none).  A call made while an exception is in       *)
(* flight is not executed.                                                 *)

Ctx(log) == [log |-> log, st |-> "ok"]

\* subprocess.run(argv, check=True): non-zero exit raises CalledProcessError
Run(c, argv, bad) ==
    IF c.st # "ok" THEN c
    ELSE LET ok == (Len(c.log) + 1) \notin bad
         IN  [log |-> Append(c.log, Cmd(argv, ok)),
              st  |-> IF ok THEN "ok" ELSE "CalledProcessError"]

\* subprocess.run(argv) without check: the exit status is ignored
RunNoCheck(c, argv, bad) ==
    IF c.st # "ok" THEN c
    ELSE [c EXCEPT !.log = Append(c.log, Cmd(argv, (Len(c.log) + 1) \notin bad))]

\* subprocess.Popen(argv, stdin=PIPE).communicate(input): the caller tests
\* proc.returncode itself
Popen(c, argv, input, bad) ==
    IF c.st # "ok" THEN c
    ELSE [c EXCEPT !.log = Append(c.log, CmdIn(argv, input, (Len(c.log) + 1) \notin bad))]

\* exit status of the last command of the history was zero
LastOk(c) == c.log[Len(c.log)].ok

\* raise exc unless an exception is already in flight
Raise(c, exc) == IF c.st # "ok" THEN c ELSE [c EXCEPT !.st = exc]

\* "except <types>: raise Exception(...)"
Reraise(c, types) == IF c.st \in types THEN [c EXCEPT !.st = "Exception"] ELSE c

\* "except <types>: print(warning)"
Swallow(c, types) == IF c.st \in types THEN [c EXCEPT !.st = "ok"] ELSE c

\* every Python exception class below Exception that the model raises
ExceptionClasses == {"Exception", "CalledProcessError", "KeyError", "FileNotFoundError"}

\* number of commands of log beyond position n that exited non-zero
NewFaults(log, n) == Cardinality({i \in (n + 1)..Len(log) : ~log[i].ok})

-----------------------------------------------------------------------------
(* The operator.  Every prompt of the installer is answered by the         *)
(* operator; one run is driven by one set of answers.                      *)

\* answers to select_partition_scheme and to the prompts of create_partitions
DiskAnswers(scheme, separate_boot, confirm_erase, use_boot, format) ==
    [scheme |-> scheme, separate_boot |-> separate_boot,
     confirm_erase |-> confirm_erase, use_boot |-> use_boot,
     format_efi |-> format, format_boot |-> format]

\* answers to setup_pool: typed_passphrases is what the operator types at the
\* passphrase prompt, confirmation what is typed at its confirmation
PoolPlain ==
    [pool_name |-> "rpool", pool_type |-> "single", compression |-> "lz4",
     deduplication |-> FALSE, encryption |-> FALSE,
     typed_passphrases |-> {"tr0ub4dor&3"}, confirmation |-> "tr0ub4dor&3",
     advanced |-> FALSE, ashift |-> 12, autotrim |-> TRUE,
     use_swap |-> FALSE, swap_size |-> 0]

PoolMirrorEncrypted ==
    [pool_name |-> "tank", pool_type |-> "mirror", compression |-> "zstd",
     deduplication |-> TRUE, encryption |-> TRUE,
     typed_passphrases |-> {"short", "tr0ub4dor&3"}, confirmation |-> "tr0ub4dor&3",
     advanced |-> TRUE, ashift |-> 9, autotrim |-> FALSE,
     use_swap |-> TRUE, swap_size |-> 2]

PoolRaidzEncrypted ==
    [pool_name |-> "rpool", pool_type |-> "raidz1", compression |-> "off",
     deduplication |-> FALSE, encryption |-> TRUE,
     typed_passphrases |-> {"correct horse battery"}, confirmation |-> "correct horse battery",
     advanced |-> TRUE, ashift |-> 13, autotrim |-> TRUE,
     use_swap |-> TRUE, swap_size |-> 128]

PoolRaidz2 ==
    [pool_name |-> "zroot", pool_type |-> "raidz2", compression |-> "lz4",
     deduplication |-> FALSE, encryption |-> FALSE,
     typed_passphrases |-> {"tr0ub4dor&3"}, confirmation |-> "tr0ub4dor&3",
     advanced |-> TRUE, ashift |-> 12, autotrim |-> FALSE,
     use_swap |-> TRUE, swap_size |-> 1]

PoolMistypedConfirmation ==
    [PoolMirrorEncrypted EXCEPT !.typed_passphrases = {"tr0ub4dor&3"},
                                !.confirmation = "tr0ub4dor"]

\* answers to setup_boot_partitions
BootAnswers(bootloader, kernel, dual_boot) ==
    [bootloader |-> bootloader, kernel |-> kernel, dual_boot |-> dual_boot]

\* answers to _update_mirrorlist and install_base_system
BaseAnswers(update_mirrors, country, additional_packages) ==
    [update_mirrors |-> update_mirrors, country |-> country,
     additional_packages |-> additional_packages]

\* answers to one user-creation dialogue
Alice == [username |-> "alice", password |-> "al1ce-pw", shell |-> "/bin/bash",
          groups |-> <<"wheel", "audio">>]
Bob == [username |-> "bob", password |-> "b0b-secret", shell |-> "/bin/zsh",
        groups |-> <<"audio">>]

\* answers to configure_system
ConfigAnswers(network_tools, hostname, users, additional_services) ==
    [timezone |-> "UTC", hostname |-> hostname, network_tools |-> network_tools,
     typed_root_passwords |-> {"root", "r00tpw"}, users |-> users,
     additional_services |-> additional_services]

Answers(disk, pool, boot, base, config, export_pool) ==
    [disk |-> disk, pool |-> pool, boot |-> boot, base |-> base, config |-> config,
     export_pool |-> export_pool]

\* the operators the model runs the installer with
Operators ==
    {Answers(DiskAnswers("full", TRUE, TRUE, FALSE, FALSE), PoolPlain,
             BootAnswers("grub", "linux-lts", FALSE),
             BaseAnswers(FALSE, "US", <<>>),
             ConfigAnswers("networkmanager", "archzfs", <<>>, <<>>), TRUE),
     Answers(DiskAnswers("full", FALSE, TRUE, FALSE, FALSE), PoolMirrorEncrypted,
             BootAnswers("systemd-boot", "linux-zen", FALSE),
             BaseAnswers(TRUE, "all", <<"git">>),
             ConfigAnswers("systemd-networkd", "zbox", <<Bob>>, <<"sshd", "bluetooth">>),
             FALSE),
     Answers(DiskAnswers("manual", TRUE, FALSE, TRUE, TRUE), PoolRaidzEncrypted,
             BootAnswers("grub", "linux", TRUE),
             BaseAnswers(TRUE, "DE", <<>>),
             ConfigAnswers("none", "archzfs", <<Alice, Bob>>, <<"sshd">>), TRUE),
     Answers(DiskAnswers("existing", FALSE, FALSE, FALSE, TRUE), PoolRaidz2,
             BootAnswers("grub", "linux-lts", FALSE),
             BaseAnswers(FALSE, "US", <<>>),
             ConfigAnswers("networkmanager", "archzfs", <<Alice>>, <<>>), TRUE),
     Answers(DiskAnswers("manual", FALSE, FALSE, TRUE, FALSE), PoolPlain,
             BootAnswers("systemd-boot", "linux", FALSE),
             BaseAnswers(FALSE, "US", <<>>),
             ConfigAnswers("none", "archzfs", <<>>, <<>>), FALSE),
     Answers(DiskAnswers("full", TRUE, TRUE, FALSE, FALSE), PoolMistypedConfirmation,
             BootAnswers("grub", "linux-lts", FALSE),
             BaseAnswers(FALSE, "US", <<>>),
             ConfigAnswers("networkmanager", "archzfs", <<>>, <<>>), TRUE),
     Answers(DiskAnswers("full", FALSE, FALSE, FALSE, FALSE), PoolPlain,
             BootAnswers("grub", "linux-lts", FALSE),
             BaseAnswers(FALSE, "US", <<>>),
             ConfigAnswers("networkmanager", "archzfs", <<>>, <<>>), TRUE)}

-----------------------------------------------------------------------------
(* Initial state: the objects as their constructors leave them             *)

DiskManagerInit ==
    [selected_disk |-> None,
     partitions |-> [efi |-> None, boot |-> None, zfs |-> None],
     partition_scheme |-> "full",
     use_separate_boot |-> FALSE]

ZFSManagerInit ==
    [pool_name |-> "rpool", pool_type |-> "single", compression |-> "lz4",
     deduplication |-> FALSE, encryption |-> FALSE, encryption_passphrase |-> "",
     ashift |-> 12, autotrim |-> TRUE, swap_size |-> 0,
     datasets |-> <<>>]

BootManagerInit ==
    [bootloader |-> "grub", kernel |-> "linux-lts", efi_partition |-> None,
     boot_partition |-> None, pool_name |-> None, root_mount |-> "/mnt",
     separate_boot |-> FALSE, dual_boot |-> FALSE]

SystemConfigInit ==
    [root_mount |-> "/mnt", hostname |-> "archzfs", users |-> <<>>,
     root_password |-> None]

InstallerInit == [root_mount |-> "/mnt", installation_complete |-> FALSE]

Init ==
    /\ pc = "start"
    /\ stage = "start"
    /\ raised = ""
    /\ exit_code = NoExit
    /\ cmds = <<>>
    /\ faults = 0
    /\ returned = <<>>
    /\ disk_manager = DiskManagerInit
    /\ zfs_manager = ZFSManagerInit
    /\ boot_manager = BootManagerInit
    /\ system_config = SystemConfigInit
    /\ installer = InstallerInit
    /\ operator \in Operators
    /\ call = NoCall

-----------------------------------------------------------------------------
(* Leaving a handler of main()'s try block                                 *)

\* c is the context the handler ended in, next the handler that follows
Leave(c, next, nextStage) ==
    /\ cmds' = c.log
    /\ faults' = faults + NewFaults(c.log, Len(cmds))
    /\ exit_code' = exit_code
    /\ operator' = operator
    /\ call' = call
    /\ IF c.st = "ok"
       THEN /\ pc' = next
            /\ stage' = nextStage
            /\ raised' = ""
            /\ returned' = IF nextStage # stage
                           THEN Append(returned, [stage |-> stage, at |-> Len(c.log)])
                           ELSE returned
       ELSE /\ pc' = "except"
            /\ stage' = stage
            /\ raised' = c.st
            /\ returned' = returned

\* the positions at which a handler starting now may see a command fail
Bad(span) == BadSets(Len(cmds) + 1, Len(cmds) + span, MaxFaults - faults)

-----------------------------------------------------------------------------
(* main(): privilege check (main.py 24-27)                                 *)

CheckRoot ==
    /\ pc = "start"
    /\ \E euid \in {0, 1000} :
          IF euid # 0
          THEN /\ pc' = "exited"
               /\ exit_code' = 1
               /\ stage' = stage
          ELSE /\ pc' = "parse_args"
               /\ exit_code' = exit_code
               /\ stage' = "parse_args"
    /\ UNCHANGED <<raised, cmds, faults, returned, disk_manager, zfs_manager,
                   boot_manager, system_config, installer, operator, call>>

-----------------------------------------------------------------------------
(* main(): command line (main.py 30-32)                                    *)

\* the arguments the installer may be started with
CommandLines == {<<>>, <<"--debug">>, <<"--help">>, <<"-h">>, <<"--verbose">>}

\* ArgumentParser.parse_args with the single option --debug: the help
\* options print the usage and end the process with status 0, any other
\* argument is an error that ends it with status 2
ParseExit(argv) ==
    IF argv = <<>> \/ argv = <<"--debug">> THEN NoExit
    ELSE IF argv[1] \in {"--help", "-h"} THEN 0
    ELSE 2

ParseArgs ==
    /\ pc = "parse_args"
    /\ \E argv \in CommandLines :
          /\ exit_code' = ParseExit(argv)
          /\ IF ParseExit(argv) = NoExit
             THEN pc' = "select_disk" /\ stage' = "select_disk"
             ELSE pc' = "exited" /\ stage' = stage
    /\ UNCHANGED <<raised, cmds, faults, returned, disk_manager, zfs_manager,
                   boot_manager, system_config, installer, operator, call>>

-----------------------------------------------------------------------------
(* DiskManager (utils/disk_manager.py)                                     *)

\* what lsblk may list as disks: nothing, or one disk
DiskLists == {<<>>, <<"/dev/sda">>}

\* get_available_disks: lsblk; a failure is caught and reported as no disks
GetAvailableDisks(c, bad) ==
    Swallow(Run(c, <<"lsblk", "-pdo", "NAME,SIZE,MODEL", "-e", "7,11">>, bad),
            {"CalledProcessError"})

\* get_disk_info: lsblk (checked, failure caught) then parted (unchecked)
GetDiskInfo(c, disk, bad) ==
    LET c1 == Run(c, <<"lsblk", "-pJo", "NAME,SIZE,FSTYPE,MOUNTPOINT,PARTLABEL", disk>>, bad)
        c2 == RunNoCheck(c1, <<"parted", "-s", disk, "print">>, bad)
    IN  Swallow(c2, {"CalledProcessError"})

\* get_disk_info returned a partition list (lsblk succeeded)
DiskInfoOk(c0, c) == Len(c.log) = Len(c0.log) + 2

SelectDisk ==
    /\ pc = "select_disk"
    /\ \E bad \in Bad(3), listed \in DiskLists :
          LET ans == operator.disk
              c0 == Ctx(cmds)
              c1 == GetAvailableDisks(c0, bad)
              disks == IF LastOk(c1) THEN listed ELSE <<>>
              c2 == IF disks = <<>> THEN Raise(c1, "Exception") ELSE c1
              c3 == IF c2.st = "ok" THEN GetDiskInfo(c2, disks[1], bad) ELSE c2
          IN  /\ Leave(c3, "create_partitions", "create_partitions")
              /\ disk_manager' =
                    IF c3.st = "ok"
                    THEN [disk_manager EXCEPT !.selected_disk = disks[1],
                                              !.partition_scheme = ans.scheme,
                                              !.use_separate_boot = ans.separate_boot]
                    ELSE disk_manager
    /\ UNCHANGED <<zfs_manager, boot_manager, system_config, installer>>

\* what lsblk may list as the partitions of the selected disk
PartitionTables(disk) ==
    {<<>>, <<disk \o "1", disk \o "2">>, <<disk \o "1", disk \o "2", disk \o "3">>}

\* inquirer.select over a list of choices: the entries the operator may pick
Pick(choices) == {choices[i] : i \in 1..Len(choices)}

\* list comprehension [p for p in parts if p != x]
Without(parts, x) == SelectSeq(parts, LAMBDA p : p # x)

\* A handler's result: its context and the DiskManager fields as it left them
DiskResult(c, dm) == [c |-> c, dm |-> dm]

\* _create_full_disk_partitions as it would be if the answer to the erase
\* confirmation were not tested
CreateFullDiskPartitionsUnconfirmed(c, dm, confirm, bad) ==
    LET disk == dm.selected_disk
        c0 == c
        c1 == Run(c0, <<"sgdisk", "--zap-all", disk>>, bad)
        c2 == Run(c1, <<"sgdisk", "--new=1:0:+512M", "--typecode=1:ef00",
                        "--change-name=1:EFI", disk>>, bad)
        c3 == IF dm.use_separate_boot
              THEN Run(Run(c2, <<"sgdisk", "--new=2:0:+1G", "--typecode=2:8300",
                                 "--change-name=2:BOOT", disk>>, bad),
                       <<"sgdisk", "--new=3:0:0", "--typecode=3:bf00",
                         "--change-name=3:ZFS", disk>>, bad)
              ELSE Run(c2, <<"sgdisk", "--new=2:0:0", "--typecode=2:bf00",
                             "--change-name=2:ZFS", disk>>, bad)
        parts == IF c3.st # "ok" THEN dm.partitions
                 ELSE IF dm.use_separate_boot
                 THEN [efi |-> disk \o "1", boot |-> disk \o "2", zfs |-> disk \o "3"]
                 ELSE [dm.partitions EXCEPT !.efi = disk \o "1", !.zfs = disk \o "2"]
        c4 == Run(c3, <<"partprobe", disk>>, bad)
        c5 == Run(c4, <<"mkfs.fat", "-F32", parts.efi>>, bad)
        c6 == IF dm.use_separate_boot
              THEN Run(c5, <<"mkfs.ext4", parts.boot>>, bad)
              ELSE c5
    IN  DiskResult(Reraise(c6, {"CalledProcessError"}),
                   [dm EXCEPT !.partitions = parts])

\* _create_full_disk_partitions (disk_manager.py 129-192)
CreateFullDiskPartitions(c, dm, confirm, bad) ==
    LET disk == dm.selected_disk
        c0 == IF confirm THEN c ELSE Raise(c, "Exception")
        c1 == Run(c0, <<"sgdisk", "--zap-all", disk>>, bad)
        c2 == Run(c1, <<"sgdisk", "--new=1:0:+512M", "--typecode=1:ef00",
                        "--change-name=1:EFI", disk>>, bad)
        c3 == IF dm.use_separate_boot
              THEN Run(Run(c2, <<"sgdisk", "--new=2:0:+1G", "--typecode=2:8300",
                                 "--change-name=2:BOOT", disk>>, bad),
                       <<"sgdisk", "--new=3:0:0", "--typecode=3:bf00",
                         "--change-name=3:ZFS", disk>>, bad)
              ELSE Run(c2, <<"sgdisk", "--new=2:0:0", "--typecode=2:bf00",
                             "--change-name=2:ZFS", disk>>, bad)
        parts == IF c3.st # "ok" THEN dm.partitions
                 ELSE IF dm.use_separate_boot
                 THEN [efi |-> disk \o "1", boot |-> disk \o "2", zfs |-> disk \o "3"]
                 ELSE [dm.partitions EXCEPT !.efi = disk \o "1", !.zfs = disk \o "2"]
        c4 == Run(c3, <<"partprobe", disk>>, bad)
        c5 == Run(c4, <<"mkfs.fat", "-F32", parts.efi>>, bad)
        c6 == IF dm.use_separate_boot
              THEN Run(c5, <<"mkfs.ext4", parts.boot>>, bad)
              ELSE c5
    IN  DiskResult(Reraise(c6, {"CalledProcessError"}),
                   [dm EXCEPT !.partitions = parts])

\* the boot and ZFS selections as they would be if the boot partition stayed
\* among the choices for the ZFS partition and were picked again
SelectBootAndZfsAgain(c, dm, table, use_boot, format, pick, bad) ==
    LET remaining == Without(table, dm.partitions.efi)
    IN  IF c.st # "ok" THEN DiskResult(c, dm)
        ELSE IF remaining = <<>> THEN DiskResult(Raise(c, "Exception"), dm)
        ELSE IF ~use_boot
        THEN DiskResult(c, [dm EXCEPT !.partitions.zfs = pick.zfs])
        ELSE LET dm1 == [dm EXCEPT !.partitions.boot = pick.boot]
                 c1 == IF format THEN Run(c, <<"mkfs.ext4", pick.boot>>, bad) ELSE c
             IN  IF c1.st # "ok" THEN DiskResult(c1, dm1)
                 ELSE DiskResult(c1, [dm1 EXCEPT !.partitions.zfs = pick.boot])

\* the boot and ZFS selections shared by the manual and the existing scheme
\* (disk_manager.py 240-271 and 311-334); format is whether mkfs.ext4 is run.
\* inquirer.select over an empty list of choices raises.
SelectBootAndZfs(c, dm, table, use_boot, format, pick, bad) ==
    LET remaining == Without(table, dm.partitions.efi)
    IN  IF c.st # "ok" THEN DiskResult(c, dm)
        ELSE IF ~use_boot
        THEN IF remaining = <<>> THEN DiskResult(Raise(c, "Exception"), dm)
             ELSE DiskResult(c, [dm EXCEPT !.partitions.zfs = pick.zfs])
        ELSE IF remaining = <<>> THEN DiskResult(Raise(c, "Exception"), dm)
        ELSE LET dm1 == [dm EXCEPT !.partitions.boot = pick.boot]
                 c1 == IF format THEN Run(c, <<"mkfs.ext4", pick.boot>>, bad) ELSE c
                 rest == Without(remaining, pick.boot)
             IN  IF c1.st # "ok" THEN DiskResult(c1, dm1)
                 ELSE IF rest = <<>> THEN DiskResult(Raise(c1, "Exception"), dm1)
                 ELSE DiskResult(c1, [dm1 EXCEPT !.partitions.zfs = pick.zfs])

\* the picks the operator can make from a partition table: the EFI entry, the
\* boot entry among the others, the ZFS entry among what is left
Picks(table, use_boot) ==
    IF table = <<>> THEN {[efi |-> None, boot |-> None, zfs |-> None]}
    ELSE LET e == table[1]
             rem == Without(table, e)
             b == IF use_boot /\ rem # <<>> THEN rem[1] ELSE None
             rest == IF use_boot /\ rem # <<>> THEN Without(rem, b) ELSE rem
         IN  {[efi |-> e, boot |-> b, zfs |-> z] :
                 z \in IF rest = <<>> THEN {None} ELSE Pick(rest)}

\* _create_manual_partitions (disk_manager.py 194-271)
CreateManualPartitions(c, dm, table, ans, pick, bad) ==
    LET c1 == GetDiskInfo(c, dm.selected_disk, bad)
        found == IF DiskInfoOk(c, c1) THEN table ELSE <<>>
    IN  IF found = <<>> THEN DiskResult(Raise(c1, "Exception"), dm)
        ELSE LET dm1 == [dm EXCEPT !.partitions.efi = pick.efi]
                 c2 == IF ans.format_efi
                       THEN Run(c1, <<"mkfs.fat", "-F32", pick.efi>>, bad)
                       ELSE c1
             IN  SelectBootAndZfs(c2, dm1, found, ans.use_boot, ans.format_boot, pick, bad)

\* _select_existing_partitions (disk_manager.py 273-334)
SelectExistingPartitions(c, dm, table, vfat, ans, pick, bad) ==
    LET c1 == GetDiskInfo(c, dm.selected_disk, bad)
        found == IF DiskInfoOk(c, c1) THEN table ELSE <<>>
    IN  IF found = <<>> THEN DiskResult(Raise(c1, "Exception"), dm)
        ELSE LET dm1 == [dm EXCEPT !.partitions.efi = pick.efi]
                 c2 == RunNoCheck(c1, <<"blkid", "-o", "value", "-s", "TYPE", pick.efi>>, bad)
                 c3 == IF ~vfat /\ ans.format_efi
                       THEN Run(c2, <<"mkfs.fat", "-F32", pick.efi>>, bad)
                       ELSE c2
             IN  SelectBootAndZfs(c3, dm1, found, ans.use_boot, FALSE, pick, bad)

\* create_partitions (disk_manager.py 117-127)
CreatePartitions ==
    /\ pc = "create_partitions"
    /\ \E bad \in Bad(7), vfat \in BOOLEAN,
          table \in PartitionTables(disk_manager.selected_disk) :
          \E pick \in Picks(table, operator.disk.use_boot) :
             LET ans == operator.disk
                 c0 == Ctx(cmds)
                 r == CASE disk_manager.partition_scheme = "full" ->
                             CreateFullDiskPartitions(c0, disk_manager, ans.confirm_erase, bad)
                        [] disk_manager.partition_scheme = "manual" ->
                             CreateManualPartitions(c0, disk_manager, table, ans, pick, bad)
                        [] disk_manager.partition_scheme = "existing" ->
                             SelectExistingPartitions(c0, disk_manager, table, vfat, ans,
                                                      pick, bad)
             IN  /\ Leave(r.c, "setup_pool", "setup_pool")
                 /\ disk_manager' = r.dm
    /\ UNCHANGED <<zfs_manager, boot_manager, system_config, installer>>

-----------------------------------------------------------------------------
(* ZFSManager (utils/zfs_manager.py)                                       *)

\* shortest passphrase the encryption prompt's validator accepts
MinPassphraseLen == 8

\* inquirer.secret(validate=...): the prompt returns only a text its
\* validator accepts
Secret(typed, minLen) == {t \in typed : Len(t) >= minLen}

\* A handler's result: its context and the ZFSManager fields as it left them
ZfsResult(c, zm) == [c |-> c, zm |-> zm]

\* setup_pool as it would be if the confirmation were never compared with the
\* passphrase
SetupPoolFieldsUnconfirmed(c, zm, ans, passphrase, confirmation) ==
    LET zm1 == [zm EXCEPT !.pool_name = ans.pool_name,
                          !.pool_type = ans.pool_type,
                          !.compression = ans.compression,
                          !.deduplication = ans.deduplication,
                          !.encryption = ans.encryption]
        zm2 == IF ans.encryption
               THEN [zm1 EXCEPT !.encryption_passphrase = passphrase]
               ELSE zm1
        zm3 == IF ans.advanced
               THEN [zm2 EXCEPT !.ashift = ans.ashift, !.autotrim = ans.autotrim]
               ELSE zm2
        zm4 == IF ans.use_swap THEN [zm3 EXCEPT !.swap_size = ans.swap_size] ELSE zm3
    IN  ZfsResult(c, zm4)

\* setup_pool (zfs_manager.py 26-138): prompts only, no command
SetupPoolFields(c, zm, ans, passphrase, confirmation) ==
    LET zm1 == [zm EXCEPT !.pool_name = ans.pool_name,
                          !.pool_type = ans.pool_type,
                          !.compression = ans.compression,
                          !.deduplication = ans.deduplication,
                          !.encryption = ans.encryption]
        zm2 == IF ans.encryption
               THEN [zm1 EXCEPT !.encryption_passphrase = passphrase]
               ELSE zm1
        c1 == IF ans.encryption /\ confirmation # passphrase
              THEN Raise(c, "Exception")
              ELSE c
        zm3 == IF ans.advanced
               THEN [zm2 EXCEPT !.ashift = ans.ashift, !.autotrim = ans.autotrim]
               ELSE zm2
        zm4 == IF ans.use_swap THEN [zm3 EXCEPT !.swap_size = ans.swap_size] ELSE zm3
    IN  ZfsResult(c1, IF c1.st = "ok" THEN zm4 ELSE zm2)

SetupPool ==
    /\ pc = "setup_pool"
    /\ \E passphrase \in Secret(operator.pool.typed_passphrases, MinPassphraseLen) :
          LET r == SetupPoolFields(Ctx(cmds), zfs_manager, operator.pool, passphrase,
                                   operator.pool.confirmation)
          IN  /\ Leave(r.c, "create_pool", "create_pool")
              /\ zfs_manager' = r.zm
    /\ UNCHANGED <<disk_manager, boot_manager, system_config, installer>>

\* the vdev part as it would be if every raidz level were written "raidz"
PoolVdevsPlainRaidz(zm, zfs_partitions) ==
    IF zm.pool_type = "single" \/ Len(zfs_partitions) = 1
    THEN <<zfs_partitions[1]>>
    ELSE IF zm.pool_type = "mirror" THEN <<"mirror">> \o zfs_partitions
    ELSE IF SubSeq(zm.pool_type, 1, 5) = "raidz" THEN <<"raidz">> \o zfs_partitions
    ELSE <<>>

\* the vdev part as it would be if the topology alone decided it, whatever
\* the number of partitions
PoolVdevsByTypeOnly(zm, zfs_partitions) ==
    IF zm.pool_type = "single"
    THEN <<zfs_partitions[1]>>
    ELSE IF zm.pool_type = "mirror" THEN <<"mirror">> \o zfs_partitions
    ELSE IF SubSeq(zm.pool_type, 1, 5) = "raidz" THEN <<zm.pool_type>> \o zfs_partitions
    ELSE <<>>

\* the vdev part of the pool-creation command (zfs_manager.py 186-194)
PoolVdevs(zm, zfs_partitions) ==
    IF zm.pool_type = "single" \/ Len(zfs_partitions) = 1
    THEN <<zfs_partitions[1]>>
    ELSE IF zm.pool_type = "mirror" THEN <<"mirror">> \o zfs_partitions
    ELSE IF SubSeq(zm.pool_type, 1, 5) = "raidz" THEN <<zm.pool_type>> \o zfs_partitions
    ELSE <<>>

\* the pool-creation command as it would be if the default ashift were
\* written whatever was configured
PoolCreateCmdDefaultAshift(zm, zfs_partitions) ==
    <<"zpool", "create", "-f">>
    \o <<"-o", "ashift=12">>
    \o (IF zm.autotrim THEN <<"-o", "autotrim=on">> ELSE <<>>)
    \o <<"-O", "compression=" \o zm.compression,
         "-O", "normalization=formD",
         "-O", "acltype=posixacl",
         "-O", "xattr=sa",
         "-O", "relatime=on",
         "-O", "canmount=off">>
    \o (IF zm.deduplication THEN <<"-O", "dedup=on">> ELSE <<>>)
    \o (IF zm.encryption
        THEN <<"-O", "encryption=aes-256-gcm", "-O", "keylocation=prompt",
               "-O", "keyformat=passphrase">>
        ELSE <<>>)
    \o <<"-O", "mountpoint=none">>
    \o <<zm.pool_name>>
    \o PoolVdevs(zm, zfs_partitions)

\* the pool-creation command (zfs_manager.py 148-194)
PoolCreateCmd(zm, zfs_partitions) ==
    <<"zpool", "create", "-f">>
    \o <<"-o", "ashift=" \o ToString(zm.ashift)>>
    \o (IF zm.autotrim THEN <<"-o", "autotrim=on">> ELSE <<>>)
    \o <<"-O", "compression=" \o zm.compression,
         "-O", "normalization=formD",
         "-O", "acltype=posixacl",
         "-O", "xattr=sa",
         "-O", "relatime=on",
         "-O", "canmount=off">>
    \o (IF zm.deduplication THEN <<"-O", "dedup=on">> ELSE <<>>)
    \o (IF zm.encryption
        THEN <<"-O", "encryption=aes-256-gcm", "-O", "keylocation=prompt",
               "-O", "keyformat=passphrase">>
        ELSE <<>>)
    \o <<"-O", "mountpoint=none">>
    \o <<zm.pool_name>>
    \o PoolVdevs(zm, zfs_partitions)

\* running the pool-creation command (zfs_manager.py 196-218)
RunPoolCreate(c, zm, cmd, bad) ==
    IF zm.encryption
    THEN LET c1 == Popen(c, cmd, zm.encryption_passphrase \o "\n", bad)
         IN  IF c1.st = "ok" /\ ~LastOk(c1) THEN Raise(c1, "Exception") ELSE c1
    ELSE Reraise(Run(c, cmd, bad), {"CalledProcessError"})

\* create_pool (zfs_manager.py 140-218); a single partition name is made a list
CreatePoolCall(c, zm, zfs_partition, bad) ==
    RunPoolCreate(c, zm, PoolCreateCmd(zm, <<zfs_partition>>), bad)

CreatePool ==
    /\ pc = "create_pool"
    /\ \E bad \in Bad(1) :
          Leave(CreatePoolCall(Ctx(cmds), zfs_manager, disk_manager.partitions.zfs, bad),
                "create_datasets", "create_datasets")
    /\ UNCHANGED <<disk_manager, zfs_manager, boot_manager, system_config, installer>>

-----------------------------------------------------------------------------
(* create_pool called on its own with a list of backing partitions         *)

\* most backing partitions supplied in one call
MaxPartitions == 3

BackingDevices == {"/dev/sda2", "/dev/sdb2", "/dev/sdc2"}

\* the non-empty lists of backing partitions
PartitionLists == UNION {[1..n -> BackingDevices] : n \in 1..MaxPartitions}

\* the topologies setup_pool offers (zfs_manager.py 41-46)
PoolTypes == {"single", "mirror", "raidz1", "raidz2"}

\* a ZFSManager configured for a topology, with or without encryption
ConfiguredPools ==
    {[ZFSManagerInit EXCEPT !.pool_type = t,
                            !.encryption = e,
                            !.encryption_passphrase =
                                IF e THEN "correct horse battery" ELSE ""] :
        t \in PoolTypes, e \in BOOLEAN}

\* the objects as constructed, no command issued yet, one method about to be
\* called
BeforeCall(method) ==
    /\ pc = "call"
    /\ stage = method
    /\ raised = ""
    /\ exit_code = NoExit
    /\ cmds = <<>>
    /\ faults = 0
    /\ returned = <<>>
    /\ disk_manager = DiskManagerInit
    /\ system_config = SystemConfigInit
    /\ installer = InstallerInit
    /\ operator = None

CreatePoolInit ==
    /\ BeforeCall("create_pool")
    /\ boot_manager = BootManagerInit
    /\ zfs_manager \in ConfiguredPools
    /\ \E parts \in PartitionLists :
          call = [method |-> "create_pool", zfs_partitions |-> parts]

\* create_pool(zfs_partitions) (zfs_manager.py 140-218)
CallCreatePool ==
    /\ pc = "call"
    /\ call.method = "create_pool"
    /\ \E bad \in BadSets(1, 1, 1) :
          LET c == RunPoolCreate(Ctx(cmds), zfs_manager,
                                 PoolCreateCmd(zfs_manager, call.zfs_partitions), bad)
          IN  /\ cmds' = c.log
              /\ faults' = NewFaults(c.log, 0)
              /\ raised' = IF c.st = "ok" THEN "" ELSE c.st
    /\ pc' = "returned"
    /\ UNCHANGED <<stage, exit_code, returned, disk_manager, zfs_manager, boot_manager,
                   system_config, installer, operator, call>>

CreatePoolSpec == CreatePoolInit /\ [][CallCreatePool]_vars

\* _create_dataset (zfs_manager.py 267-281); properties is a sequence
RECURSIVE PropertyOptions(_)
PropertyOptions(properties) ==
    IF properties = <<>> THEN <<>>
    ELSE <<"-o", Head(properties)>> \o PropertyOptions(Tail(properties))

\* _create_dataset as it would be if a failed creation were only a warning
CreateDatasetWarnOnly(c, name, properties, bad) ==
    Swallow(Run(c, <<"zfs", "create", "-p">> \o PropertyOptions(properties) \o <<name>>, bad),
            {"CalledProcessError"})

CreateDataset(c, name, properties, bad) ==
    Reraise(Run(c, <<"zfs", "create", "-p">> \o PropertyOptions(properties) \o <<name>>, bad),
            {"CalledProcessError"})

\* Python integers are unbounded; a byte count is kept as hi * 10^6 + lo so
\* that no intermediate product leaves the checker's 32-bit integers
BigInt(n) == [hi |-> n \div 1000000, lo |-> n % 1000000]

\* b * m for a small factor m
BigMul(b, m) ==
    LET lo == b.lo * m
    IN  [hi |-> b.hi * m + (lo \div 1000000), lo |-> lo % 1000000]

\* str(b)
BigStr(b) ==
    IF b.hi = 0 THEN ToString(b.lo)
    ELSE LET s == ToString(b.lo)
         IN  ToString(b.hi) \o SubSeq("000000", 1, 6 - Len(s)) \o s

\* the size as it would be with decimal gigabytes
SwapSizeBytesDecimal(swap_size) ==
    BigStr(BigMul(BigMul(BigMul(BigInt(swap_size), 1000), 1000), 1000))

\* swap_size * 1024 * 1024 * 1024, as text (zfs_manager.py 285, 291)
SwapSizeBytes(swap_size) ==
    BigStr(BigMul(BigMul(BigMul(BigInt(swap_size), 1024), 1024), 1024))

\* _create_swap_zvol (zfs_manager.py 283-310)
CreateSwapZvol(c, zm, bad) ==
    LET swap_size_bytes == SwapSizeBytes(zm.swap_size)
        c1 == Run(c, <<"zfs", "create", "-V", swap_size_bytes, "-b", "4K",
                       "-o", "compression=zle", "-o", "logbias=throughput",
                       "-o", "sync=always", "-o", "primarycache=metadata",
                       "-o", "com.sun:auto-snapshot=false",
                       zm.pool_name \o "/swap">>, bad)
        c2 == Run(c1, <<"mkswap", "-f", "/dev/zvol/" \o zm.pool_name \o "/swap">>, bad)
    IN  Reraise(c2, {"CalledProcessError"})

\* name of the root dataset (zfs_manager.py 228)
RootDsName(zm) == zm.pool_name \o "/ROOT/arch"

\* the dataset creations as they would be if var/log were created before its
\* parent var
CreateDatasetTreeChildFirst(c, zm, bad) ==
    LET c1 == CreateDataset(c, zm.pool_name \o "/ROOT",
                            <<"canmount=off", "mountpoint=none">>, bad)
        c2 == CreateDataset(c1, RootDsName(zm),
                            <<"canmount=noauto", "mountpoint=/",
                              "com.sun:auto-snapshot=true">>, bad)
        c3 == CreateDataset(c2, zm.pool_name \o "/home",
                            <<"mountpoint=/home", "com.sun:auto-snapshot=true">>, bad)
        c4 == CreateDataset(c3, zm.pool_name \o "/var/log", <<"mountpoint=/var/log">>, bad)
        c5 == CreateDataset(c4, zm.pool_name \o "/var",
                            <<"mountpoint=/var", "com.sun:auto-snapshot=false">>, bad)
    IN  CreateDataset(c5, zm.pool_name \o "/var/cache", <<"mountpoint=/var/cache">>, bad)

\* the dataset creations of create_datasets in program order
\* (zfs_manager.py 225-248)
CreateDatasetTree(c, zm, bad) ==
    LET c1 == CreateDataset(c, zm.pool_name \o "/ROOT",
                            <<"canmount=off", "mountpoint=none">>, bad)
        c2 == CreateDataset(c1, RootDsName(zm),
                            <<"canmount=noauto", "mountpoint=/",
                              "com.sun:auto-snapshot=true">>, bad)
        c3 == CreateDataset(c2, zm.pool_name \o "/home",
                            <<"mountpoint=/home", "com.sun:auto-snapshot=true">>, bad)
        c4 == CreateDataset(c3, zm.pool_name \o "/var",
                            <<"mountpoint=/var", "com.sun:auto-snapshot=false">>, bad)
        c5 == CreateDataset(c4, zm.pool_name \o "/var/log", <<"mountpoint=/var/log">>, bad)
    IN  CreateDataset(c5, zm.pool_name \o "/var/cache", <<"mountpoint=/var/cache">>, bad)

\* the dataset name map create_datasets stores (zfs_manager.py 257-262)
DatasetMap(zm) ==
    [root |-> RootDsName(zm),
     home |-> zm.pool_name \o "/home",
     var  |-> zm.pool_name \o "/var",
     swap |-> IF zm.swap_size > 0 THEN zm.pool_name \o "/swap" ELSE None]

\* create_datasets as it would be if bootfs were set before the datasets
\* are created
CreateDatasetsBootfsFirst(c, zm, bad) ==
    LET c1 == Run(c, <<"zpool", "set", "bootfs=" \o RootDsName(zm), zm.pool_name>>, bad)
        c2 == CreateDatasetTree(c1, zm, bad)
        c3 == IF zm.swap_size > 0 THEN CreateSwapZvol(c2, zm, bad) ELSE c2
    IN  ZfsResult(c3, IF c3.st = "ok" THEN [zm EXCEPT !.datasets = DatasetMap(zm)] ELSE zm)

\* create_datasets as it would be if the dataset map were filled in whether
\* or not the commands succeeded
CreateDatasetsMapAlways(c, zm, bad) ==
    LET c1 == CreateDatasetTree(c, zm, bad)
        c2 == IF zm.swap_size > 0 THEN CreateSwapZvol(c1, zm, bad) ELSE c1
        c3 == Run(c2, <<"zpool", "set", "bootfs=" \o RootDsName(zm), zm.pool_name>>, bad)
    IN  ZfsResult(c3, [zm EXCEPT !.datasets = DatasetMap(zm)])

\* create_datasets (zfs_manager.py 220-265)
CreateDatasetsCall(c, zm, bad) ==
    LET c1 == CreateDatasetTree(c, zm, bad)
        c2 == IF zm.swap_size > 0 THEN CreateSwapZvol(c1, zm, bad) ELSE c1
        c3 == Run(c2, <<"zpool", "set", "bootfs=" \o RootDsName(zm), zm.pool_name>>, bad)
    IN  ZfsResult(c3, IF c3.st = "ok" THEN [zm EXCEPT !.datasets = DatasetMap(zm)] ELSE zm)

CreateDatasets ==
    /\ pc = "create_datasets"
    /\ \E bad \in Bad(9) :
          LET r == CreateDatasetsCall(Ctx(cmds), zfs_manager, bad)
          IN  /\ Leave(r.c, "setup_boot_partitions", "setup_boot_partitions")
              /\ zfs_manager' = r.zm
    /\ UNCHANGED <<disk_manager, boot_manager, system_config, installer>>

\* export_pool (zfs_manager.py 338-346): a failure is a warning
ExportPool(c, zm, bad) ==
    IF c.st # "ok" THEN c
    ELSE Swallow(Run(c, <<"zpool", "export", zm.pool_name>>, bad), {"CalledProcessError"})

\* the try block of import_pool as it would be if the passphrase were not
\* handed to the import of an encrypted pool
ImportPoolTryUnpiped(c, zm, mount, bad) ==
    Run(c, <<"zpool", "import", "-d", "/dev/disk/by-id", "-f">>
           \o (IF ~mount THEN <<"-N">> ELSE <<>>)
           \o <<zm.pool_name>>, bad)

\* the try block of import_pool (zfs_manager.py 350-372): the import of an
\* encrypted pool is given the passphrase on its standard input, and its
\* exit status is turned into an exception by hand
ImportPoolTry(c, zm, mount, bad) ==
    LET cmd == <<"zpool", "import", "-d", "/dev/disk/by-id", "-f">>
               \o (IF ~mount THEN <<"-N">> ELSE <<>>)
               \o <<zm.pool_name>>
    IN  IF zm.encryption
        THEN LET c1 == Popen(c, cmd, zm.encryption_passphrase \o "\n", bad)
             IN  IF ~LastOk(c1) THEN Raise(c1, "Exception") ELSE c1
        ELSE Run(c, cmd, bad)

\* import_pool as it would be without its "except Exception"
ImportPoolRaising(c, zm, mount, bad) ==
    IF c.st # "ok" THEN c ELSE ImportPoolTry(c, zm, mount, bad)

\* import_pool (zfs_manager.py 348-377): a failure is a warning
ImportPool(c, zm, mount, bad) ==
    IF c.st # "ok" THEN c
    ELSE Swallow(ImportPoolTry(c, zm, mount, bad), ExceptionClasses)

-----------------------------------------------------------------------------
(* BootManager.setup_boot_partitions (utils/boot_manager.py 23-59)         *)

SetupBootPartitions ==
    /\ pc = "setup_boot_partitions"
    /\ boot_manager' = [boot_manager EXCEPT !.bootloader = operator.boot.bootloader,
                                            !.kernel = operator.boot.kernel,
                                            !.dual_boot = operator.boot.dual_boot]
    /\ Leave(Ctx(cmds), "mount_filesystems", "mount_filesystems")
    /\ UNCHANGED <<disk_manager, zfs_manager, system_config, installer>>

-----------------------------------------------------------------------------
(* Installer.mount_filesystems (utils/installer.py 21-67)                  *)

\* the datasets mounted after the root dataset, with their mountpoints, in
\* program order (installer.py 41-46)
OtherMounts(zm, root_mount) ==
    <<[dataset |-> zm.pool_name \o "/home", mountpoint |-> root_mount \o "/home"],
      [dataset |-> zm.pool_name \o "/var", mountpoint |-> root_mount \o "/var"],
      [dataset |-> zm.pool_name \o "/var/log", mountpoint |-> root_mount \o "/var/log"],
      [dataset |-> zm.pool_name \o "/var/cache", mountpoint |-> root_mount \o "/var/cache"]>>

\* set the mountpoint property of a dataset, then mount it
SetMountpointAndMount(c, dataset, mountpoint, bad) ==
    Run(Run(c, <<"zfs", "set", "mountpoint=" \o mountpoint, dataset>>, bad),
        <<"zfs", "mount", dataset>>, bad)

\* the loop over the other datasets (installer.py 41-54)
RECURSIVE MountEach(_, _, _)
MountEach(c, mounts, bad) ==
    IF mounts = <<>> THEN c
    ELSE MountEach(SetMountpointAndMount(c, Head(mounts).dataset,
                                         Head(mounts).mountpoint, bad),
                   Tail(mounts), bad)

\* the dataset mounts as they would be if a failed mount were only a warning
MountDatasetsWarnOnly(c, zm, root_mount, bad) ==
    IF "root" \notin DOMAIN zm.datasets THEN Raise(c, "KeyError")
    ELSE LET c1 == SetMountpointAndMount(c, zm.datasets.root, root_mount, bad)
             c2 == MountEach(c1, OtherMounts(zm, root_mount), bad)
         IN  Swallow(c2, {"CalledProcessError"})

\* the try block mounting the dataset tree (installer.py 31-59); reading
\* datasets['root'] of an empty map raises KeyError before the try block
MountDatasets(c, zm, root_mount, bad) ==
    IF "root" \notin DOMAIN zm.datasets THEN Raise(c, "KeyError")
    ELSE LET c1 == SetMountpointAndMount(c, zm.datasets.root, root_mount, bad)
             c2 == MountEach(c1, OtherMounts(zm, root_mount), bad)
         IN  Reraise(c2, {"CalledProcessError"})

\* A handler's result: its context and the BootManager fields as it left them
BootResult(c, bm) == [c |-> c, bm |-> bm]

\* the boot-partition mounts as they would be if a failed mount were only a
\* warning
MountBootPartitionsWarnOnly(c, bm, bad) ==
    LET efi_dir == PathJoin(bm.root_mount, "boot/efi")
        c1 == Run(c, <<"mount", bm.efi_partition, efi_dir>>, bad)
        c2 == IF bm.separate_boot
              THEN Run(c1, <<"mount", bm.boot_partition, PathJoin(bm.root_mount, "boot")>>, bad)
              ELSE c1
    IN  Swallow(c2, {"CalledProcessError"})

\* the mount commands of setup_boot_directories (boot_manager.py 202-214)
MountBootPartitions(c, bm, bad) ==
    LET efi_dir == PathJoin(bm.root_mount, "boot/efi")
        c1 == Run(c, <<"mount", bm.efi_partition, efi_dir>>, bad)
        c2 == IF bm.separate_boot
              THEN Run(c1, <<"mount", bm.boot_partition, PathJoin(bm.root_mount, "boot")>>, bad)
              ELSE c1
    IN  Reraise(c2, {"CalledProcessError"})

\* setup_boot_directories (boot_manager.py 190-214)
SetupBootDirectories(c, bm, root_mount, pool_name, efi_partition, boot_partition, bad) ==
    IF c.st # "ok" THEN BootResult(c, bm)
    ELSE LET bm1 == [bm EXCEPT !.root_mount = root_mount,
                               !.pool_name = pool_name,
                               !.efi_partition = efi_partition,
                               !.boot_partition = boot_partition,
                               !.separate_boot = (boot_partition # None)]
         IN  BootResult(MountBootPartitions(c, bm1, bad), bm1)

\* mount_filesystems (installer.py 21-67)
MountFilesystemsCall(c, inst, zm, bm, dm, bad) ==
    LET c1 == ImportPool(c, zm, FALSE, bad)
        c2 == MountDatasets(c1, zm, inst.root_mount, bad)
    IN  SetupBootDirectories(c2, bm, inst.root_mount, zm.pool_name,
                             dm.partitions.efi, dm.partitions.boot, bad)

MountFilesystems ==
    /\ pc = "mount_filesystems"
    /\ \E bad \in Bad(13) :
          LET r == MountFilesystemsCall(Ctx(cmds), installer, zfs_manager,
                                        boot_manager, disk_manager, bad)
          IN  /\ Leave(r.c, "install_base_system", "install_base_system")
              /\ boot_manager' = r.bm
    /\ UNCHANGED <<disk_manager, zfs_manager, system_config, installer>>

-----------------------------------------------------------------------------
(* Installer.install_base_system (utils/installer.py 69-182)               *)

\* _update_mirrorlist (installer.py 130-182): a failure is a warning
UpdateMirrorlist(c, ans, bad) ==
    IF ~ans.update_mirrors THEN c
    ELSE LET mirrorlist_path == "/etc/pacman.d/mirrorlist"
             cmd == IF ans.country = "all"
                    THEN <<"reflector", "--latest", "50", "--sort", "rate",
                           "--save", mirrorlist_path>>
                    ELSE <<"reflector", "--country", ans.country, "--latest", "20",
                           "--sort", "rate", "--save", mirrorlist_path>>
         IN  Swallow(Run(c, cmd, bad), {"CalledProcessError"})

\* the package list of install_base_system (installer.py 77-112)
Packages(bm, additional_packages) ==
    <<"base", "base-devel">>
    \o <<bm.kernel, bm.kernel \o "-headers", "linux-firmware">>
    \o <<"zfs-" \o bm.kernel, "zfs-utils">>
    \o <<"vim", "nano", "networkmanager", "dhcpcd", "man-db", "man-pages",
         "which", "wget", "curl", "tar", "gzip", "unzip", "python", "python-pip">>
    \o additional_packages

\* install_base_system (installer.py 69-128)
InstallBaseSystemCall(c, inst, bm, ans, bad) ==
    LET c1 == UpdateMirrorlist(c, ans, bad)
        c2 == Run(c1, <<"pacstrap", inst.root_mount>>
                      \o Packages(bm, ans.additional_packages), bad)
    IN  Reraise(c2, {"CalledProcessError"})

InstallBaseSystem ==
    /\ pc = "install_base_system"
    /\ \E bad \in Bad(2) :
          Leave(InstallBaseSystemCall(Ctx(cmds), installer, boot_manager, operator.base, bad),
                "_configure_locale", "configure_system")
    /\ UNCHANGED <<disk_manager, zfs_manager, boot_manager, system_config, installer>>

-----------------------------------------------------------------------------
(* SystemConfig (utils/system_config.py)                                   *)

\* shortest account password the password prompts' validator accepts
MinPasswordLen == 6

\* arch-chroot <root> <command...>
Chroot(root_mount, command) == <<"arch-chroot", root_mount>> \o command

\* configure_system is called by main() and again by finalize_installation;
\* the handler that follows it depends on the caller
AfterConfigureSystem == IF stage = "configure_system" THEN "install_bootloader"
                        ELSE "_unmount_filesystems"

StageAfterConfigureSystem == IF stage = "configure_system" THEN "install_bootloader"
                             ELSE stage

\* _configure_locale (system_config.py 35-114): any failure is a warning
ConfigureLocaleCall(c, sc, bad) ==
    Swallow(Run(c, Chroot(sc.root_mount, <<"locale-gen">>), bad), ExceptionClasses)

ConfigureLocale ==
    /\ pc = "_configure_locale"
    /\ \E bad \in Bad(1) :
          Leave(ConfigureLocaleCall(Ctx(cmds), system_config, bad),
                "_configure_timezone", stage)
    /\ UNCHANGED <<disk_manager, zfs_manager, boot_manager, system_config, installer>>

\* _configure_timezone (system_config.py 116-159): a failure is a warning
ConfigureTimezoneCall(c, sc, timezone, bad) ==
    LET c1 == Run(c, Chroot(sc.root_mount,
                            <<"ln", "-sf", "/usr/share/zoneinfo/" \o timezone,
                              "/etc/localtime">>), bad)
        c2 == Run(c1, Chroot(sc.root_mount, <<"hwclock", "--systohc">>), bad)
    IN  Swallow(c2, {"CalledProcessError"})

ConfigureTimezone ==
    /\ pc = "_configure_timezone"
    /\ \E bad \in Bad(2) :
          Leave(ConfigureTimezoneCall(Ctx(cmds), system_config, operator.config.timezone, bad),
                "_configure_network", stage)
    /\ UNCHANGED <<disk_manager, zfs_manager, boot_manager, system_config, installer>>

\* _configure_network (system_config.py 161-232): its commands are checked
\* and no failure is caught
ConfigureNetworkCall(c, sc, ans, bad) ==
    IF ans.network_tools = "networkmanager"
    THEN Run(Run(c, Chroot(sc.root_mount,
                           <<"pacman", "-S", "--noconfirm", "networkmanager">>), bad),
             Chroot(sc.root_mount, <<"systemctl", "enable", "NetworkManager">>), bad)
    ELSE IF ans.network_tools = "systemd-networkd"
    THEN Run(Run(c, Chroot(sc.root_mount,
                           <<"systemctl", "enable", "systemd-networkd">>), bad),
             Chroot(sc.root_mount, <<"systemctl", "enable", "systemd-resolved">>), bad)
    ELSE c

ConfigureNetwork ==
    /\ pc = "_configure_network"
    /\ \E bad \in Bad(2) :
          /\ Leave(ConfigureNetworkCall(Ctx(cmds), system_config, operator.config, bad),
                   "_configure_users", stage)
          /\ system_config' = [system_config EXCEPT !.hostname = operator.config.hostname]
    /\ UNCHANGED <<disk_manager, zfs_manager, boot_manager, installer>>

\* _set_password as it would be if the password were handed to chpasswd
\* through a shell command line
SetPasswordOnCommandLine(c, sc, username, password, bad) ==
    Swallow(Run(c, Chroot(sc.root_mount,
                          <<"sh", "-c", "echo " \o username \o ":" \o password \o " | chpasswd">>),
                bad),
            ExceptionClasses)

\* _set_password (system_config.py 370-394): a failure is a warning
SetPassword(c, sc, username, password, bad) ==
    Popen(c, Chroot(sc.root_mount, <<"passwd", username>>),
          password \o "\n" \o password \o "\n", bad)

\* A handler's result: its context and the SystemConfig fields as it left them
ConfigResult(c, sc) == [c |-> c, sc |-> sc]

\* os.path.basename of a shell path /bin/<name>
ShellPackage(shell) == SubSeq(shell, 6, Len(shell))

\* ",".join(groups)
RECURSIVE JoinComma(_)
JoinComma(groups) ==
    IF Len(groups) = 0 THEN ""
    ELSE IF Len(groups) = 1 THEN groups[1]
    ELSE groups[1] \o "," \o JoinComma(Tail(groups))

\* x in list
InSeq(x, list) == \E i \in 1..Len(list) : list[i] = x

\* _create_user (system_config.py 273-368) once password and confirmation
\* match: a failing command is reported and ends the creation
CreateUser(c, sc, u, bad) ==
    LET c1 == IF InSeq("wheel", u.groups)
              THEN Run(c, Chroot(sc.root_mount, <<"pacman", "-S", "--noconfirm", "sudo">>), bad)
              ELSE c
        c2 == IF u.shell # "/bin/bash"
              THEN Run(c1, Chroot(sc.root_mount,
                                  <<"pacman", "-S", "--noconfirm", ShellPackage(u.shell)>>), bad)
              ELSE c1
        c3 == Run(c2, Chroot(sc.root_mount,
                             <<"useradd", "-m", "-G", JoinComma(u.groups), "-s", u.shell,
                               u.username>>), bad)
        c4 == SetPassword(c3, sc, u.username, u.password, bad)
        sc1 == IF c4.st = "ok"
               THEN [sc EXCEPT !.users = Append(@, [username |-> u.username,
                                                    groups |-> u.groups,
                                                    shell |-> u.shell])]
               ELSE sc
    IN  ConfigResult(Swallow(c4, {"CalledProcessError"}), sc1)

RECURSIVE CreateUsers(_, _, _, _)
CreateUsers(c, sc, users, bad) ==
    IF users = <<>> THEN ConfigResult(c, sc)
    ELSE LET r == CreateUser(c, sc, Head(users), bad)
         IN  CreateUsers(r.c, r.sc, Tail(users), bad)

\* _configure_users (system_config.py 234-271); the prompts are repeated
\* until password and confirmation match, then the password is set
ConfigureUsersCall(c, sc, root_password, users, bad) ==
    LET sc1 == [sc EXCEPT !.root_password = root_password]
        c1 == SetPassword(c, sc1, "root", root_password, bad)
    IN  CreateUsers(c1, sc1, users, bad)

ConfigureUsers ==
    /\ pc = "_configure_users"
    /\ \E bad \in Bad(5),
          root_password \in Secret(operator.config.typed_root_passwords, MinPasswordLen) :
          LET r == ConfigureUsersCall(Ctx(cmds), system_config, root_password,
                                      operator.config.users, bad)
          IN  /\ Leave(r.c, "_configure_services", stage)
              /\ system_config' = r.sc
    /\ UNCHANGED <<disk_manager, zfs_manager, boot_manager, installer>>

\* the volume-manager services (system_config.py 401)
ZfsServices == <<"zfs.target", "zfs-import-cache", "zfs-mount", "zfs-import.target">>

\* enabling one volume-manager service (system_config.py 403-410)
EnableZfsService(c, sc, service, bad) ==
    Swallow(Run(c, Chroot(sc.root_mount, <<"systemctl", "enable", service>>), bad),
            {"CalledProcessError"})

\* package installed for an additional service (system_config.py 431-435)
ServicePackage(service) ==
    IF service = "sshd" THEN "openssh"
    ELSE IF service = "bluetooth" THEN "bluez bluez-utils"
    ELSE service

\* installing and enabling one additional service (system_config.py 428-451)
EnableAdditionalService(c, sc, service, bad) ==
    LET c1 == Run(c, Chroot(sc.root_mount,
                            <<"pacman", "-S", "--noconfirm", ServicePackage(service)>>), bad)
        c2 == Run(c1, Chroot(sc.root_mount, <<"systemctl", "enable", service>>), bad)
    IN  Swallow(c2, {"CalledProcessError"})

RECURSIVE EnableZfsServices(_, _, _, _)
EnableZfsServices(c, sc, services, bad) ==
    IF services = <<>> THEN c
    ELSE EnableZfsServices(EnableZfsService(c, sc, Head(services), bad),
                           sc, Tail(services), bad)

RECURSIVE EnableAdditionalServices(_, _, _, _)
EnableAdditionalServices(c, sc, services, bad) ==
    IF services = <<>> THEN c
    ELSE EnableAdditionalServices(EnableAdditionalService(c, sc, Head(services), bad),
                                  sc, Tail(services), bad)

\* _configure_services (system_config.py 396-453)
ConfigureServicesCall(c, sc, additional_services, bad) ==
    EnableAdditionalServices(EnableZfsServices(c, sc, ZfsServices, bad),
                             sc, additional_services, bad)

ConfigureServices ==
    /\ pc = "_configure_services"
    /\ \E bad \in Bad(8) :
          Leave(ConfigureServicesCall(Ctx(cmds), system_config,
                                      operator.config.additional_services, bad),
                AfterConfigureSystem, StageAfterConfigureSystem)
    /\ UNCHANGED <<disk_manager, zfs_manager, boot_manager, system_config, installer>>

-----------------------------------------------------------------------------
(* BootManager: boot loader and initramfs (utils/boot_manager.py)          *)

\* _install_grub (boot_manager.py 70-154)
InstallGrub(c, bm, bad) ==
    LET c1 == Run(c, Chroot(bm.root_mount,
                            <<"pacman", "-S", "--noconfirm", "grub", "efibootmgr",
                              "dosfstools">>
                            \o (IF bm.dual_boot THEN <<"os-prober">> ELSE <<>>)), bad)
        c2 == Run(c1, Chroot(bm.root_mount,
                             <<"grub-install", "--target=x86_64-efi",
                               "--efi-directory=/boot/efi", "--bootloader-id=GRUB">>), bad)
        c3 == Run(c2, Chroot(bm.root_mount,
                             <<"grub-mkconfig", "-o", "/boot/grub/grub.cfg">>), bad)
    IN  Reraise(c3, {"CalledProcessError"})

\* _install_systemd_boot (boot_manager.py 156-188)
InstallSystemdBoot(c, bm, bad) ==
    LET c1 == Run(c, Chroot(bm.root_mount,
                            <<"pacman", "-S", "--noconfirm", "efibootmgr", "dosfstools">>), bad)
        c2 == Run(c1, Chroot(bm.root_mount, <<"bootctl", "install">>), bad)
    IN  Reraise(c2, {"CalledProcessError"})

\* install_bootloader (boot_manager.py 61-68)
InstallBootloaderCall(c, bm, bad) ==
    IF bm.bootloader = "grub" THEN InstallGrub(c, bm, bad)
    ELSE IF bm.bootloader = "systemd-boot" THEN InstallSystemdBoot(c, bm, bad)
    ELSE c

\* configure_initramfs as it would be if a failure to regenerate the
\* initramfs were only reported
ConfigureInitramfsWarnOnly(c, bm, bad) ==
    Swallow(Run(c, Chroot(bm.root_mount, <<"mkinitcpio", "-P">>), bad),
            {"CalledProcessError"})

\* configure_initramfs (boot_manager.py 235-298): patch mkinitcpio.conf, then
\* regenerate the initramfs
ConfigureInitramfsCall(c, bm, bad) ==
    Reraise(Run(c, Chroot(bm.root_mount, <<"mkinitcpio", "-P">>), bad),
            {"CalledProcessError"})

\* install_bootloader as statement 7 of main() (main.py 64-65)
InstallBootloader ==
    /\ pc = "install_bootloader"
    /\ \E bad \in Bad(3) :
          Leave(InstallBootloaderCall(Ctx(cmds), boot_manager, bad),
                "generate_fstab", "finalize_installation")
    /\ UNCHANGED <<disk_manager, zfs_manager, boot_manager, system_config, installer>>

-----------------------------------------------------------------------------
(* Installer.finalize_installation (utils/installer.py 184-330)            *)

\* generate_fstab (installer.py 184-213): file writes only, any failure is a
\* warning
GenerateFstab ==
    /\ pc = "generate_fstab"
    /\ Leave(Ctx(cmds), "setup_zfs_cache", stage)
    /\ UNCHANGED <<disk_manager, zfs_manager, boot_manager, system_config, installer>>

\* setup_zfs_cache (installer.py 215-252): export, re-import writing the
\* cache file, import again for mounting; a failure is a warning
SetupZfsCacheCall(c, zm, bad) ==
    LET c1 == ExportPool(c, zm, bad)
        c2 == Run(c1, <<"zpool", "import", "-d", "/dev/disk/by-id", "-f", "-N",
                        "-o", "cachefile=/etc/zfs/zpool.cache", zm.pool_name>>, bad)
        c3 == ImportPool(c2, zm, TRUE, bad)
    IN  Swallow(c3, {"CalledProcessError", "FileNotFoundError"})

SetupZfsCache ==
    /\ pc = "setup_zfs_cache"
    /\ \E bad \in Bad(3) :
          Leave(SetupZfsCacheCall(Ctx(cmds), zfs_manager, bad),
                "configure_bootloader", stage)
    /\ UNCHANGED <<disk_manager, zfs_manager, boot_manager, system_config, installer>>

\* configure_bootloader (installer.py 254-262)
ConfigureBootloaderCall(c, bm, bad) ==
    InstallBootloaderCall(ConfigureInitramfsCall(c, bm, bad), bm, bad)

ConfigureBootloader ==
    /\ pc = "configure_bootloader"
    /\ \E bad \in Bad(4) :
          Leave(ConfigureBootloaderCall(Ctx(cmds), boot_manager, bad),
                "set_root_mount", stage)
    /\ UNCHANGED <<disk_manager, zfs_manager, boot_manager, system_config, installer>>

\* set_root_mount (system_config.py 455-457), then configure_system again
SetRootMount ==
    /\ pc = "set_root_mount"
    /\ system_config' = [system_config EXCEPT !.root_mount = installer.root_mount]
    /\ Leave(Ctx(cmds), "_configure_locale", stage)
    /\ UNCHANGED <<disk_manager, zfs_manager, boot_manager, installer>>

\* unmount_boot (boot_manager.py 300-316): a failure is a warning
UnmountBoot(c, bm, bad) ==
    LET c1 == Run(c, <<"umount", PathJoin(bm.root_mount, "boot/efi")>>, bad)
        c2 == IF bm.separate_boot
              THEN Run(c1, <<"umount", PathJoin(bm.root_mount, "boot")>>, bad)
              ELSE c1
    IN  Swallow(c2, {"CalledProcessError"})

\* the datasets _unmount_filesystems unmounts, in program order
\* (installer.py 304-311)
UnmountList(zm) ==
    <<zm.pool_name \o "/var/cache",
      zm.pool_name \o "/var/log",
      zm.pool_name \o "/var/cache",
      zm.pool_name \o "/var",
      zm.pool_name \o "/home",
      zm.datasets.root>>

\* the loop over the datasets (installer.py 313-317)
RECURSIVE UnmountEach(_, _, _)
UnmountEach(c, datasets, bad) ==
    IF datasets = <<>> THEN c
    ELSE UnmountEach(RunNoCheck(c, <<"zfs", "unmount", Head(datasets)>>, bad),
                     Tail(datasets), bad)

\* the try block as it would be if the answer to the export prompt were
\* dropped
UnmountDatasetsNoExport(c, zm, export, bad) ==
    LET c1 == IF "root" \notin DOMAIN zm.datasets THEN Raise(c, "KeyError")
              ELSE UnmountEach(c, UnmountList(zm), bad)
    IN  Swallow(c1, ExceptionClasses)

\* the try block of _unmount_filesystems (installer.py 302-328): building the
\* list raises KeyError when the dataset map is empty; any failure is a warning
UnmountDatasets(c, zm, export, bad) ==
    LET c1 == IF "root" \notin DOMAIN zm.datasets THEN Raise(c, "KeyError")
              ELSE UnmountEach(c, UnmountList(zm), bad)
        c2 == IF export THEN ExportPool(c1, zm, bad) ELSE c1
    IN  Swallow(c2, ExceptionClasses)

\* _unmount_filesystems (installer.py 294-330)
UnmountFilesystemsCall(c, zm, bm, export, bad) ==
    UnmountDatasets(UnmountBoot(c, bm, bad), zm, export, bad)

\* the call of _unmount_filesystems in finalize_installation (installer.py 284)
UnmountFilesystems ==
    /\ pc = "_unmount_filesystems"
    /\ \E bad \in Bad(9) :
          Leave(UnmountFilesystemsCall(Ctx(cmds), zfs_manager, boot_manager,
                                       operator.export_pool, bad),
                "complete", stage)
    /\ UNCHANGED <<disk_manager, zfs_manager, boot_manager, system_config, installer>>

\* cleanup as it would be without the test of installation_complete
CleanupUngated(c, inst, zm, bm, export, bad) ==
    UnmountFilesystemsCall(c, zm, bm, export, bad)

\* cleanup (installer.py 332-345)
CleanupCall(c, inst, zm, bm, export, bad) ==
    IF ~inst.installation_complete
    THEN UnmountFilesystemsCall(c, zm, bm, export, bad)
    ELSE c

\* the end of finalize_installation (installer.py 286-292) and of main()'s try
\* block (main.py 70-73): the flag is set and the process ends normally
Complete ==
    /\ pc = "complete"
    /\ installer' = [installer EXCEPT !.installation_complete = TRUE]
    /\ pc' = "exited"
    /\ exit_code' = 0
    /\ returned' = Append(returned, [stage |-> stage, at |-> Len(cmds)])
    /\ UNCHANGED <<stage, raised, cmds, faults, disk_manager, zfs_manager,
                   boot_manager, system_config, operator, call>>

-----------------------------------------------------------------------------
(* main(): the except clauses and sys.exit (main.py 75-83)                 *)

\* the interrupt as it would be if it were handled like any other error
KeyboardInterruptAsError ==
    /\ pc \notin {"start", "parse_args", "except", "exited"}
    /\ pc' = "exited"
    /\ raised' = "KeyboardInterrupt"
    /\ exit_code' = 1
    /\ UNCHANGED <<stage, cmds, faults, returned, disk_manager, zfs_manager,
                   boot_manager, system_config, installer, operator, call>>

\* except KeyboardInterrupt: the operator interrupts a running handler
KeyboardInterrupt ==
    /\ pc \notin {"start", "parse_args", "except", "exited"}
    /\ pc' = "exited"
    /\ raised' = "KeyboardInterrupt"
    /\ exit_code' = 130
    /\ UNCHANGED <<stage, cmds, faults, returned, disk_manager, zfs_manager,
                   boot_manager, system_config, installer, operator, call>>

\* except Exception: print the error and exit 1
ExceptException ==
    /\ pc = "except"
    /\ raised \in ExceptionClasses
    /\ pc' = "exited"
    /\ exit_code' = 1
    /\ UNCHANGED <<stage, raised, cmds, faults, returned, disk_manager, zfs_manager,
                   boot_manager, system_config, installer, operator, call>>

Next ==
    \/ CheckRoot
    \/ ParseArgs
    \/ SelectDisk
    \/ CreatePartitions
    \/ SetupPool
    \/ CreatePool
    \/ CreateDatasets
    \/ SetupBootPartitions
    \/ MountFilesystems
    \/ InstallBaseSystem
    \/ ConfigureLocale
    \/ ConfigureTimezone
    \/ ConfigureNetwork
    \/ ConfigureUsers
    \/ ConfigureServices
    \/ InstallBootloader
    \/ GenerateFstab
    \/ SetupZfsCache
    \/ ConfigureBootloader
    \/ SetRootMount
    \/ UnmountFilesystems
    \/ Complete
    \/ KeyboardInterrupt
    \/ ExceptException

Spec == Init /\ [][Next]_vars

-----------------------------------------------------------------------------
(* Reading the command history                                             *)

IsPoolCreate(c) == Len(c.argv) >= 2 /\ c.argv[1] = "zpool" /\ c.argv[2] = "create"
IsPoolImport(c) == Len(c.argv) >= 2 /\ c.argv[1] = "zpool" /\ c.argv[2] = "import"
IsPoolExport(c) == Len(c.argv) >= 2 /\ c.argv[1] = "zpool" /\ c.argv[2] = "export"
IsDatasetCreate(c) == Len(c.argv) >= 2 /\ c.argv[1] = "zfs" /\ c.argv[2] = "create"
IsDatasetMount(c) == Len(c.argv) >= 2 /\ c.argv[1] = "zfs" /\ c.argv[2] = "mount"
IsDatasetUnmount(c) == Len(c.argv) >= 2 /\ c.argv[1] = "zfs" /\ c.argv[2] = "unmount"
IsPartitionMount(c) == c.argv[1] = "mount"
IsPartitionUnmount(c) == c.argv[1] = "umount"
IsPacstrap(c) == c.argv[1] = "pacstrap"

\* the command run inside the target root by arch-chroot, "" for any other
ChrootedTool(c) == IF c.argv[1] = "arch-chroot" THEN c.argv[3] ELSE ""

IsInitramfsCmd(c) == ChrootedTool(c) = "mkinitcpio"
IsBootloaderCmd(c) ==
    \/ ChrootedTool(c) \in {"grub-install", "grub-mkconfig", "bootctl"}
    \/ ChrootedTool(c) = "pacman" /\ InSeq("efibootmgr", c.argv)
IsPasswordCmd(c) == ChrootedTool(c) = "passwd"

\* partition-table wipe, partition creation, filesystem format, forced pool
\* creation
IsDestructive(c) ==
    \/ c.argv[1] \in {"sgdisk", "mkfs.fat", "mkfs.ext4"}
    \/ IsPoolCreate(c) /\ InSeq("-f", c.argv)

HasReturned(s) == \E k \in 1..Len(returned) : returned[k].stage = s
ReturnAt(s) == (CHOOSE k \in 1..Len(returned) : returned[k].stage = s)
ReturnedBefore(s, i) ==
    \E k \in 1..Len(returned) : returned[k].stage = s /\ returned[k].at < i

\* the last element of an argument vector
LastArg(c) == c.argv[Len(c.argv)]

\* the targets of the commands of the history that satisfy Test, in order
Targets(Test(_)) ==
    LET sel == SelectSeq(cmds, Test)
    IN  [k \in 1..Len(sel) |-> LastArg(sel[k])]

Reverse(seq) == [k \in 1..Len(seq) |-> seq[Len(seq) + 1 - k]]

-----------------------------------------------------------------------------
(* C1 (stated as claimed): when a stage at or after pool creation raises a  *)
(* fatal error, the cleanup protocol -- which starts by unmounting the EFI  *)
(* partition -- has run by the time the process has exited with status 1;   *)
(* when an earlier stage raises, no cleanup has run.                        *)

CleanupStages ==
    {"create_pool", "create_datasets", "mount_filesystems", "install_base_system",
     "configure_system", "install_bootloader", "finalize_installation"}

CleanupIssued == \E i \in 1..Len(cmds) : IsPartitionUnmount(cmds[i])

C1_CleanupOnFatalError ==
    (pc = "exited" /\ exit_code = 1 /\ raised \in ExceptionClasses)
        => (stage \in CleanupStages <=> CleanupIssued)

-----------------------------------------------------------------------------
(* C2: the stages are strictly ordered.  The pool-create command is issued  *)
(* only after create_partitions returned, every dataset-create command only *)
(* after a successful pool creation, every mount command only after         *)
(* create_datasets returned, pacstrap only after the five dataset mounts    *)
(* and the boot-partition mounts succeeded, and every bootloader-install    *)
(* command only after a successful pacstrap.                                *)

\* in history h, a successful mount of target precedes position i
MountedOkBefore(h, target, i) ==
    \E j \in 1..(i - 1) :
        /\ IsDatasetMount(h[j]) \/ IsPartitionMount(h[j])
        /\ h[j].ok
        /\ \E a \in 2..Len(h[j].argv) : h[j].argv[a] = target

AllMountsOkBefore(h, zm, dm, i) ==
    /\ \A d \in {"/ROOT/arch", "/home", "/var", "/var/log", "/var/cache"} :
          MountedOkBefore(h, zm.pool_name \o d, i)
    /\ MountedOkBefore(h, dm.partitions.efi, i)
    /\ dm.partitions.boot # None => MountedOkBefore(h, dm.partitions.boot, i)

\* in the list r of returned stages, stage s returned before position i of the
\* command history
ReturnedBeforeIn(r, s, i) == \E k \in 1..Len(r) : r[k].stage = s /\ r[k].at < i

\* every command a step issues respects the ordering; the history only grows,
\* so this covers every command of a run
C2_StagesOrdered ==
    [][\A i \in (Len(cmds) + 1)..Len(cmds') :
          /\ IsPoolCreate(cmds'[i]) => ReturnedBeforeIn(returned, "create_partitions", i)
          /\ IsDatasetCreate(cmds'[i])
                => \E j \in 1..(i - 1) : IsPoolCreate(cmds'[j]) /\ cmds'[j].ok
          /\ (IsDatasetMount(cmds'[i]) \/ IsPartitionMount(cmds'[i]))
                => ReturnedBeforeIn(returned, "create_datasets", i)
          /\ IsPacstrap(cmds'[i])
                => AllMountsOkBefore(cmds', zfs_manager', disk_manager', i)
          /\ IsBootloaderCmd(cmds'[i])
                => \E j \in 1..(i - 1) : IsPacstrap(cmds'[j]) /\ cmds'[j].ok]_vars

\* a run that got as far as installing the boot loader, with a separate boot
\* partition mounted on the way
C2_Witness ==
    /\ \E i \in 1..Len(cmds) : IsBootloaderCmd(cmds[i])
    /\ disk_manager.partitions.boot # None

-----------------------------------------------------------------------------
(* C3 (stated as claimed): no pool export and no unmount command is issued  *)
(* before the last initramfs-configuration or bootloader-installation       *)
(* command of the run.                                                      *)

C3_BootloaderBeforeUnmountExport ==
    \A i \in 1..Len(cmds) :
        (IsPoolExport(cmds[i]) \/ IsPartitionUnmount(cmds[i]) \/ IsDatasetUnmount(cmds[i]))
            => \A j \in (i + 1)..Len(cmds) :
                  ~(IsInitramfsCmd(cmds[j]) \/ IsBootloaderCmd(cmds[j]))

-----------------------------------------------------------------------------
(* C4 (stated as claimed): once _unmount_filesystems has run, the boot      *)
(* partitions were unmounted before any dataset and in the reverse of the   *)
(* order they were mounted, and the dataset unmount commands are exactly    *)
(* var/cache, var/log, var, home, root, each once.                          *)

ExpectedUnmounts(zm) ==
    <<zm.pool_name \o "/var/cache", zm.pool_name \o "/var/log",
      zm.pool_name \o "/var", zm.pool_name \o "/home", zm.pool_name \o "/ROOT/arch">>

C4_UnmountReversesMount ==
    pc = "complete" =>
        /\ Targets(IsDatasetUnmount) = ExpectedUnmounts(zfs_manager)
        /\ Targets(IsPartitionUnmount) = Reverse(Targets(IsPartitionMount))
        /\ \A i, j \in 1..Len(cmds) :
              (IsPartitionUnmount(cmds[i]) /\ IsDatasetUnmount(cmds[j])) => i < j

-----------------------------------------------------------------------------
(* C5 (stated as claimed): unmounting is best-effort per target.  Once      *)
(* _unmount_filesystems has run, every target was attempted whatever        *)
(* failed: the EFI partition, the separate boot partition when there is     *)
(* one, and each of the five datasets; and _unmount_filesystems never       *)
(* raises.                                                                  *)

UnmountAttempted(target) ==
    \E i \in 1..Len(cmds) :
        /\ IsPartitionUnmount(cmds[i]) \/ IsDatasetUnmount(cmds[i])
        /\ LastArg(cmds[i]) = target

C5_UnmountBestEffort ==
    /\ pc = "complete" =>
          /\ UnmountAttempted(PathJoin(boot_manager.root_mount, "boot/efi"))
          /\ boot_manager.separate_boot
                => UnmountAttempted(PathJoin(boot_manager.root_mount, "boot"))
          /\ \A k \in 1..5 : UnmountAttempted(ExpectedUnmounts(zfs_manager)[k])
    /\ (pc = "except" /\ Len(cmds) > 0)
          => ~(IsPartitionUnmount(cmds[Len(cmds)]) \/ IsDatasetUnmount(cmds[Len(cmds)]))

-----------------------------------------------------------------------------
(* C6: the dataset-creation commands are issued in the order parent         *)
(* container, root, home, var, var/log, var/cache, then the swap volume if  *)
(* and only if swap_size > 0; a failed creation is the last one issued; and *)
(* when create_datasets has returned all of them were issued and succeeded. *)

ExpectedCreates(zm) ==
    <<zm.pool_name \o "/ROOT", zm.pool_name \o "/ROOT/arch", zm.pool_name \o "/home",
      zm.pool_name \o "/var", zm.pool_name \o "/var/log", zm.pool_name \o "/var/cache">>
    \o (IF zm.swap_size > 0 THEN <<zm.pool_name \o "/swap">> ELSE <<>>)

C6_DatasetCreationOrder ==
    LET created == SelectSeq(cmds, IsDatasetCreate)
        expected == ExpectedCreates(zfs_manager)
    IN  /\ Len(created) <= Len(expected)
        /\ \A k \in 1..Len(created) : LastArg(created[k]) = expected[k]
        /\ \A k \in 1..(Len(created) - 1) : created[k].ok
        /\ HasReturned("create_datasets")
              => /\ Len(created) = Len(expected)
                 /\ \A k \in 1..Len(created) : created[k].ok

\* create_datasets returned after creating a swap volume
C6_Witness ==
    /\ HasReturned("create_datasets")
    /\ zfs_manager.swap_size > 0
    /\ \E i \in 1..Len(cmds) : IsDatasetCreate(cmds[i]) /\ InSeq("-V", cmds[i].argv)

-----------------------------------------------------------------------------
(* C7: the commands of mount_filesystems are, in order, the pool import     *)
(* with -N, set-mountpoint and mount of the root dataset, set-mountpoint    *)
(* and mount of home, var, var/log, var/cache, then the mount of the EFI    *)
(* partition and of the separate boot partition if there is one.  Only the  *)
(* import may fail without ending the sequence: a failed dataset command    *)
(* is the last command of the run, the stage raises, and no boot partition  *)
(* is mounted.                                                              *)

ExpectedMountCmds(zm, dm, root) ==
    <<  <<"zpool", "import", "-d", "/dev/disk/by-id", "-f", "-N", zm.pool_name>>,
        <<"zfs", "set", "mountpoint=" \o root, zm.pool_name \o "/ROOT/arch">>,
        <<"zfs", "mount", zm.pool_name \o "/ROOT/arch">>,
        <<"zfs", "set", "mountpoint=" \o root \o "/home", zm.pool_name \o "/home">>,
        <<"zfs", "mount", zm.pool_name \o "/home">>,
        <<"zfs", "set", "mountpoint=" \o root \o "/var", zm.pool_name \o "/var">>,
        <<"zfs", "mount", zm.pool_name \o "/var">>,
        <<"zfs", "set", "mountpoint=" \o root \o "/var/log", zm.pool_name \o "/var/log">>,
        <<"zfs", "mount", zm.pool_name \o "/var/log">>,
        <<"zfs", "set", "mountpoint=" \o root \o "/var/cache", zm.pool_name \o "/var/cache">>,
        <<"zfs", "mount", zm.pool_name \o "/var/cache">>,
        <<"mount", dm.partitions.efi, root \o "/boot/efi">>  >>
    \o (IF dm.partitions.boot # None
        THEN << <<"mount", dm.partitions.boot, root \o "/boot">> >>
        ELSE <<>>)

\* the commands issued by mount_filesystems so far
MountStageCmds ==
    IF ~HasReturned("setup_boot_partitions") THEN <<>>
    ELSE SubSeq(cmds, returned[ReturnAt("setup_boot_partitions")].at + 1,
                IF HasReturned("mount_filesystems")
                THEN returned[ReturnAt("mount_filesystems")].at
                ELSE Len(cmds))

C7_MountOrder ==
    LET issued == MountStageCmds
        expected == ExpectedMountCmds(zfs_manager, disk_manager, installer.root_mount)
    IN  /\ Len(issued) <= Len(expected)
        /\ \A k \in 1..Len(issued) : issued[k].argv = expected[k]
        /\ \A k \in 2..(Len(issued) - 1) : issued[k].ok
        /\ HasReturned("mount_filesystems")
              => /\ Len(issued) = Len(expected)
                 /\ \A k \in 2..Len(issued) : issued[k].ok
        /\ (\E k \in 2..Len(issued) : ~issued[k].ok)
              => /\ stage = "mount_filesystems"
                 /\ pc \in {"except", "exited"}
                 /\ raised = "Exception"

\* a dataset mount failed after the root dataset was mounted
C7_Witness ==
    /\ stage = "mount_filesystems"
    /\ pc = "except"
    /\ Len(MountStageCmds) > 3
    /\ IsDatasetMount(cmds[Len(cmds)])
    /\ ~cmds[Len(cmds)].ok

-----------------------------------------------------------------------------
(* C8: when encryption is enabled and the confirmation differs from the     *)
(* passphrase, setup_pool raises without issuing a command, the run ends    *)
(* with exit status 1 and no pool-creation command is ever issued.          *)

PassphraseMismatch ==
    /\ zfs_manager.encryption
    /\ zfs_manager.encryption_passphrase # operator.pool.confirmation

C8_MismatchFailsSetupPool ==
    PassphraseMismatch =>
        /\ stage = "setup_pool"
        /\ pc \in {"except", "exited"}
        /\ raised = "Exception"
        /\ exit_code \in {NoExit, 1}
        /\ ReturnedBefore("create_partitions", Len(cmds) + 1)
        /\ returned[ReturnAt("create_partitions")].at = Len(cmds)
        /\ \A i \in 1..Len(cmds) : ~IsPoolCreate(cmds[i])

\* the run ended on the mismatch
C8_Witness == PassphraseMismatch /\ pc = "exited" /\ exit_code = 1

-----------------------------------------------------------------------------
(* C9 (stated as claimed): in a run with encryption enabled, no destructive *)
(* command is issued before setup_pool has accepted the passphrase and its  *)
(* confirmation.                                                            *)

C9_NoDestructionBeforePassphraseCheck ==
    operator.pool.encryption =>
        \A i \in 1..Len(cmds) :
            IsDestructive(cmds[i]) => ReturnedBefore("setup_pool", i)

-----------------------------------------------------------------------------
(* C10: no argument of any command issued contains the encryption          *)
(* passphrase or an account password; only pool creation, pool import and   *)
(* password setting are given piped input.                                  *)

\* the secrets of the run: the stored passphrase, the stored root password
\* and the passwords of the users the operator creates
Secrets ==
    (IF zfs_manager.encryption_passphrase # "" THEN {zfs_manager.encryption_passphrase}
     ELSE {})
    \cup (IF system_config.root_password # None THEN {system_config.root_password}
          ELSE {})
    \cup {operator.config.users[k].password : k \in 1..Len(operator.config.users)}

NoSecretInArgv(c, secrets) ==
    \A a \in 1..Len(c.argv) : \A t \in secrets : ~Contains(c.argv[a], t)

\* every step issues only commands that keep the secrets out of their
\* arguments; the history only grows, so this covers every command of a run
C10_SecretsOnlyPiped ==
    [][\A i \in (Len(cmds) + 1)..Len(cmds') :
          /\ NoSecretInArgv(cmds'[i], Secrets')
          /\ cmds'[i].piped
                => IsPoolCreate(cmds'[i]) \/ IsPoolImport(cmds'[i]) \/ IsPasswordCmd(cmds'[i])]_vars

\* a passphrase and a user password were both piped to a command
C10_Witness ==
    /\ \E i \in 1..Len(cmds) :
          /\ IsPoolCreate(cmds[i])
          /\ cmds[i].piped
          /\ cmds[i].input = zfs_manager.encryption_passphrase \o "\n"
    /\ \E i \in 1..Len(cmds) :
          /\ IsPasswordCmd(cmds[i])
          /\ LastArg(cmds[i]) # "root"
          /\ \E t \in Secrets : Contains(cmds[i].input, t)

-----------------------------------------------------------------------------
(* C11 (stated as claimed): in a run that ended with exit status 0 and in   *)
(* which no command failed, the boot loader was installed once, the system  *)
(* configuration ran once (one locale generation, one clock                 *)
(* synchronisation), and each dataset was unmounted exactly once.           *)

\* number of commands of the history that satisfy Test
Count(Test(_)) == Len(SelectSeq(cmds, Test))

IsBootloaderInstall(c) ==
    \/ ChrootedTool(c) = "grub-install"
    \/ ChrootedTool(c) = "bootctl" /\ InSeq("install", c.argv)

FullySuccessful ==
    pc = "exited" /\ exit_code = 0 /\ faults = 0 /\ installer.installation_complete

C11_EveryOperationOnce ==
    FullySuccessful =>
        /\ Count(IsBootloaderInstall) = 1
        /\ Count(LAMBDA c : ChrootedTool(c) = "locale-gen") = 1
        /\ Count(LAMBDA c : ChrootedTool(c) = "hwclock") = 1
        /\ \A k \in 1..5 :
              Count(LAMBDA c : IsDatasetUnmount(c)
                               /\ LastArg(c) = ExpectedUnmounts(zfs_manager)[k]) = 1

-----------------------------------------------------------------------------
(* C12: once a stage has raised a fatal error, the history holds no command *)
(* of a later stage and never grows again, installation_complete is and     *)
(* stays false, and the process exits with status 1; in particular a failed *)
(* dataset creation is fatal and no mount command follows it.               *)

\* the statements of main()'s try block in program order (main.py 44-68)
StageOrder ==
    <<"select_disk", "create_partitions", "setup_pool", "create_pool", "create_datasets",
      "setup_boot_partitions", "mount_filesystems", "install_base_system",
      "configure_system", "install_bootloader", "finalize_installation">>

StageRank(s) == CHOOSE k \in 1..Len(StageOrder) : StageOrder[k] = s

\* the earliest stage that issues a command of this kind
EarliestStage(c) ==
    CASE c.argv[1] \in {"sgdisk", "mkfs.fat", "mkfs.ext4", "partprobe"} -> "create_partitions"
      [] IsPoolCreate(c) -> "create_pool"
      [] IsDatasetCreate(c) -> "create_datasets"
      [] IsPoolImport(c) \/ IsDatasetMount(c) \/ IsPartitionMount(c) -> "mount_filesystems"
      [] IsPacstrap(c) -> "install_base_system"
      [] ChrootedTool(c) \in {"locale-gen", "hwclock", "passwd", "useradd", "systemctl"}
            -> "configure_system"
      [] IsBootloaderCmd(c) -> "install_bootloader"
      [] IsInitramfsCmd(c) \/ IsPoolExport(c) \/ IsPartitionUnmount(c) \/ IsDatasetUnmount(c)
            -> "finalize_installation"
      [] OTHER -> "select_disk"

FatalError == raised \in ExceptionClasses

C12_NothingAfterFatalError ==
    /\ [](FatalError =>
            /\ pc \in {"except", "exited"}
            /\ ~installer.installation_complete
            /\ exit_code = (IF pc = "exited" THEN 1 ELSE NoExit)
            /\ \A i \in 1..Len(cmds) :
                  StageRank(EarliestStage(cmds[i])) <= StageRank(stage))
    /\ []((\E i \in 1..Len(cmds) : IsDatasetCreate(cmds[i]) /\ ~cmds[i].ok) =>
            /\ FatalError
            /\ stage = "create_datasets"
            /\ \A j \in 1..Len(cmds) :
                  ~(IsDatasetMount(cmds[j]) \/ IsPartitionMount(cmds[j])))
    /\ [][FatalError =>
            /\ cmds' = cmds
            /\ stage' = stage
            /\ raised' = raised
            /\ installer' = installer
            /\ pc' = "exited"
            /\ exit_code' = 1]_vars

\* the run ended on a failed dataset creation
C12_Witness ==
    /\ pc = "exited"
    /\ exit_code = 1
    /\ stage = "create_datasets"
    /\ \E i \in 1..Len(cmds) : IsDatasetCreate(cmds[i]) /\ ~cmds[i].ok

-----------------------------------------------------------------------------
(* C13 (stated as claimed): the exit status is 0 exactly when all stages    *)
(* through finalize completed, 1 exactly when a stage raised an unhandled   *)
(* error or the process lacks root privileges, and 130 exactly when the     *)
(* operator interrupted the run; there is no other exit status.             *)

LacksRoot == stage = "start"

C13_ExitCodes ==
    pc = "exited" =>
        /\ exit_code \in {0, 1, 130}
        /\ exit_code = 0 <=> HasReturned("finalize_installation")
        /\ exit_code = 1 <=> (FatalError \/ LacksRoot)
        /\ exit_code = 130 <=> raised = "KeyboardInterrupt"

(* C13 (amended): when the process has root privileges and the argument     *)
(* parser accepts the command line, the exit status is 0 exactly when all   *)
(* stages through finalize completed, 1 exactly when a stage raised an      *)
(* unhandled error, and 130 exactly when the operator interrupted the run.  *)
(* Without root privileges it is 1, and when the argument parser ends the   *)
(* process it is 0 (help) or 2 (unrecognised argument); in both cases no    *)
(* stage has run.                                                           *)

C13_ExitCodesOfAcceptedCommandLine ==
    pc = "exited" =>
        IF LacksRoot
        THEN exit_code = 1 /\ cmds = <<>> /\ returned = <<>>
        ELSE IF stage = "parse_args"
        THEN exit_code \in {0, 2} /\ cmds = <<>> /\ returned = <<>>
        ELSE /\ exit_code \in {0, 1, 130}
             /\ exit_code = 0 <=> HasReturned("finalize_installation")
             /\ exit_code = 0 <=> installer.installation_complete
             /\ exit_code = 1 <=> FatalError
             /\ exit_code = 130 <=> raised = "KeyboardInterrupt"

\* the operator interrupted the installation of the base system
C13_Witness ==
    /\ pc = "exited"
    /\ exit_code = 130
    /\ stage = "install_base_system"
    /\ raised = "KeyboardInterrupt"

-----------------------------------------------------------------------------
(* C14: installation_complete is true exactly when finalize_installation    *)
(* has returned.  When it is true the unmount sequence has run (the EFI     *)
(* partition and every dataset were attempted), the pool was exported       *)
(* after the unmounts if and only if the operator accepted the export, no   *)
(* fatal error was raised, and the process has exited with status 0.        *)

\* position of the last command of the history that satisfies Test, 0 if none
LastPosition(Test(_)) ==
    LET at == {i \in 1..Len(cmds) : Test(cmds[i])}
    IN  IF at = {} THEN 0 ELSE CHOOSE i \in at : \A j \in at : j <= i

C14_CompleteAfterUnmount ==
    /\ installer.installation_complete <=> HasReturned("finalize_installation")
    /\ installer.installation_complete =>
          /\ pc = "exited"
          /\ exit_code = 0
          /\ ~FatalError
          /\ UnmountAttempted(PathJoin(installer.root_mount, "boot/efi"))
          /\ \A k \in 1..5 : UnmountAttempted(ExpectedUnmounts(zfs_manager)[k])
          /\ operator.export_pool <=>
                LastPosition(IsPoolExport) > LastPosition(IsDatasetUnmount)
          /\ Len(cmds) = IF operator.export_pool THEN LastPosition(IsPoolExport)
                         ELSE LastPosition(IsDatasetUnmount)

\* a completed installation whose operator accepted the export
C14_Witness ==
    /\ installer.installation_complete
    /\ operator.export_pool
    /\ IsPoolExport(cmds[Len(cmds)])

-----------------------------------------------------------------------------
(* C15 (stated as claimed): for every list of backing partitions supplied   *)
(* to create_pool, the command ends with the pool name and one backing      *)
(* device when the topology is single, and with the pool name, the topology *)
(* keyword and all supplied devices in the order supplied when the topology *)
(* is mirror, raidz1 or raidz2.                                             *)

\* the last n elements of a sequence
Suffix(seq, n) == SubSeq(seq, Len(seq) - n + 1, Len(seq))

PoolCreated == pc = "returned" /\ call.method = "create_pool"

C15_TopologyKeywordAndDevices ==
    PoolCreated =>
        LET argv == cmds[1].argv
            parts == call.zfs_partitions
        IN  IF zfs_manager.pool_type = "single"
            THEN Suffix(argv, 2) = <<zfs_manager.pool_name, parts[1]>>
            ELSE Suffix(argv, Len(parts) + 2)
                    = <<zfs_manager.pool_name, zfs_manager.pool_type>> \o parts

(* C15 (amended): with topology single, or with exactly one backing         *)
(* partition supplied whatever the topology, the command ends with the pool *)
(* name and the first backing device only; with topology mirror, raidz1 or  *)
(* raidz2 and at least two backing partitions it ends with the pool name,   *)
(* the topology keyword and all supplied devices in the order supplied.     *)

C15_KeywordNeedsTwoDevices ==
    PoolCreated =>
        LET argv == cmds[1].argv
            parts == call.zfs_partitions
        IN  /\ Len(cmds) = 1
            /\ IF zfs_manager.pool_type = "single" \/ Len(parts) = 1
               THEN Suffix(argv, 2) = <<zfs_manager.pool_name, parts[1]>>
               ELSE Suffix(argv, Len(parts) + 2)
                       = <<zfs_manager.pool_name, zfs_manager.pool_type>> \o parts

\* a raidz2 pool over three partitions, the first of them named last
C15_Witness ==
    /\ PoolCreated
    /\ zfs_manager.pool_type = "raidz2"
    /\ call.zfs_partitions = <<"/dev/sdb2", "/dev/sdc2", "/dev/sda2">>
    /\ Suffix(cmds[1].argv, 4) = <<"raidz2", "/dev/sdb2", "/dev/sdc2", "/dev/sda2">>

-----------------------------------------------------------------------------
(* Python string methods used on configuration files                       *)

Whitespace == {" ", "\t", "\n"}

\* s[i], 1-based
Char(s, i) == SubSeq(s, i, i)

\* s.startswith(p)
StartsWith(s, p) == Len(s) >= Len(p) /\ SubSeq(s, 1, Len(p)) = p

\* s.lstrip(chars), s.rstrip(chars), s.strip(chars)
RECURSIVE LStrip(_, _)
LStrip(s, chars) ==
    IF Len(s) > 0 /\ Char(s, 1) \in chars THEN LStrip(SubSeq(s, 2, Len(s)), chars) ELSE s

RECURSIVE RStrip(_, _)
RStrip(s, chars) ==
    IF Len(s) > 0 /\ Char(s, Len(s)) \in chars
    THEN RStrip(SubSeq(s, 1, Len(s) - 1), chars)
    ELSE s

Strip(s, chars) == RStrip(LStrip(s, chars), chars)

\* s.split(sep) for a one-character separator: the fields between separators
RECURSIVE SplitOn(_, _)
SplitOn(s, sep) ==
    LET at == {i \in 1..Len(s) : Char(s, i) = sep}
    IN  IF at = {} THEN <<s>>
        ELSE LET i == CHOOSE j \in at : \A k \in at : j <= k
             IN  <<SubSeq(s, 1, i - 1)>> \o SplitOn(SubSeq(s, i + 1, Len(s)), sep)

\* s.split(): the words between runs of whitespace
RECURSIVE Words(_)
Words(s) ==
    LET t == LStrip(s, Whitespace)
        ws == {i \in 1..Len(t) : Char(t, i) \in Whitespace}
    IN  IF t = "" THEN <<>>
        ELSE IF ws = {} THEN <<t>>
        ELSE LET i == CHOOSE j \in ws : \A k \in ws : j <= k
             IN  <<SubSeq(t, 1, i - 1)>> \o Words(SubSeq(t, i + 1, Len(t)))

\* sep.join(list)
RECURSIVE Join(_, _)
Join(list, sep) ==
    IF Len(list) = 0 THEN ""
    ELSE IF Len(list) = 1 THEN list[1]
    ELSE list[1] \o sep \o Join(Tail(list), sep)

\* list.index(x): position of the first x
IndexOf(list, x) == CHOOSE i \in 1..Len(list) : list[i] = x /\ \A j \in 1..(i - 1) : list[j] # x

\* list.insert(idx, x) with idx the position x takes
InsertAt(list, i, x) == SubSeq(list, 1, i - 1) \o <<x>> \o SubSeq(list, i, Len(list))

\* list.append(x) if x is not in list
AppendIfMissing(list, x) == IF InSeq(x, list) THEN list ELSE Append(list, x)

\* position of the first line of a file that starts with prefix, 0 if none
FirstLine(lines, prefix) ==
    LET at == {i \in 1..Len(lines) : StartsWith(lines[i], prefix)}
    IN  IF at = {} THEN 0 ELSE CHOOSE i \in at : \A j \in at : i <= j

\* line.split("=")[1].strip().strip('()"\'').split(): the entries of a
\* NAME=(...) line
Entries(line) ==
    Words(Strip(Strip(SplitOn(line, "=")[2], Whitespace), {"(", ")", "\"", "'"}))

-----------------------------------------------------------------------------
(* configure_initramfs: the patch of mkinitcpio.conf                        *)
(* (utils/boot_manager.py 247-291)                                          *)

\* the HOOKS patch as it would be if zfs were inserted without looking for it
PatchHooksUnconditional(hooks_list, bootloader) ==
    LET with_zfs == IF InSeq("filesystems", hooks_list)
                    THEN InsertAt(hooks_list, IndexOf(hooks_list, "filesystems"), "zfs")
                    ELSE Append(hooks_list, "zfs")
    IN  IF bootloader = "systemd-boot"
        THEN AppendIfMissing(AppendIfMissing(with_zfs, "sd-vconsole"), "sd-encrypt")
        ELSE with_zfs

\* the new hook list (boot_manager.py 253-268): zfs goes before filesystems,
\* or to the end; the sd- hooks are added for systemd-boot only
PatchHooks(hooks_list, bootloader) ==
    LET with_zfs == IF InSeq("zfs", hooks_list) THEN hooks_list
                    ELSE IF InSeq("filesystems", hooks_list)
                    THEN InsertAt(hooks_list, IndexOf(hooks_list, "filesystems"), "zfs")
                    ELSE Append(hooks_list, "zfs")
    IN  IF bootloader = "systemd-boot"
        THEN AppendIfMissing(AppendIfMissing(with_zfs, "sd-vconsole"), "sd-encrypt")
        ELSE with_zfs

\* the new module list (boot_manager.py 277-284)
PatchModules(modules_list) == AppendIfMissing(modules_list, "zfs")

\* the first HOOKS= line rewritten (boot_manager.py 248-272)
PatchHooksLine(lines, bootloader) ==
    LET i == FirstLine(lines, "HOOKS=")
    IN  IF i = 0 THEN lines
        ELSE [lines EXCEPT ![i] =
                "HOOKS=(" \o Join(PatchHooks(Entries(lines[i]), bootloader), " ") \o ")\n"]

\* the first MODULES= line rewritten (boot_manager.py 274-288)
PatchModulesLine(lines) ==
    LET i == FirstLine(lines, "MODULES=")
    IN  IF i = 0 THEN lines
        ELSE [lines EXCEPT ![i] =
                "MODULES=(" \o Join(PatchModules(Entries(lines[i])), " ") \o ")\n"]

\* mkinitcpio.conf as configure_initramfs writes it; a missing file is read as
\* no lines (boot_manager.py 240-291)
PatchMkinitcpio(lines, bootloader) == PatchModulesLine(PatchHooksLine(lines, bootloader))

-----------------------------------------------------------------------------
(* configure_initramfs called on its own, and called again                  *)

\* most entries of an enumerated hook list
MaxHooks == 3

\* most calls of one patching method on the same file
MaxRuns == 2

HookNames == {"base", "filesystems", "zfs", "sd-encrypt"}

\* the hook list of a freshly installed mkinitcpio.conf
DefaultHooks ==
    <<"base", "udev", "autodetect", "modconf", "block", "filesystems", "keyboard", "fsck">>

HookLists == UNION {[1..n -> HookNames] : n \in 0..MaxHooks} \cup {DefaultHooks}

\* a HOOKS line as found in a file: in parentheses or in double quotes
HooksLines ==
    {"HOOKS=(" \o Join(h, " ") \o ")\n" : h \in HookLists}
    \cup {"HOOKS=\"" \o Join(h, " ") \o "\"\n" : h \in HookLists}

ModulesLines == {"MODULES=()\n", "MODULES=(zfs)\n", "MODULES=\"nvme ext4\"\n"}

\* mkinitcpio.conf before the first call: missing, without the two lines, or
\* with both
MkinitcpioFiles ==
    {<<>>, <<"# mkinitcpio preset\n", "BINARIES=()\n">>}
    \cup {<<m, "BINARIES=()\n", h>> : m \in ModulesLines, h \in HooksLines}

InitramfsInit ==
    /\ BeforeCall("configure_initramfs")
    /\ zfs_manager = ZFSManagerInit
    /\ boot_manager \in {[BootManagerInit EXCEPT !.bootloader = b] :
                            b \in {"grub", "systemd-boot"}}
    /\ \E f \in MkinitcpioFiles :
          call = [method |-> "configure_initramfs", files |-> <<f>>]

\* configure_initramfs() (boot_manager.py 235-298); call.files is the history
\* of the contents of mkinitcpio.conf, the last entry the current one
CallConfigureInitramfs ==
    /\ pc = "call"
    /\ call.method = "configure_initramfs"
    /\ Len(call.files) <= MaxRuns
    /\ call' = [call EXCEPT !.files =
                  Append(@, PatchMkinitcpio(call.files[Len(call.files)],
                                            boot_manager.bootloader))]
    /\ \E bad \in Bad(1) :
          LET c == ConfigureInitramfsCall(Ctx(cmds), boot_manager, bad)
          IN  /\ cmds' = c.log
              /\ faults' = faults + NewFaults(c.log, Len(cmds))
              /\ raised' = IF c.st = "ok" THEN "" ELSE c.st
    /\ UNCHANGED <<pc, stage, exit_code, returned, disk_manager, zfs_manager,
                   boot_manager, system_config, installer, operator>>

InitramfsSpec == InitramfsInit /\ [][CallConfigureInitramfs]_vars

-----------------------------------------------------------------------------
(* C16: the initramfs patch is idempotent.  Whatever mkinitcpio.conf held   *)
(* and whichever boot loader is chosen, a second and any later call of      *)
(* configure_initramfs leaves the file as the first call wrote it: the      *)
(* HOOKS and MODULES lists are the same and no entry occurs more often.     *)

InitramfsPatched(n) ==
    pc = "call" /\ call.method = "configure_initramfs" /\ Len(call.files) > n

\* number of occurrences of x in list
Occurrences(list, x) == Cardinality({i \in 1..Len(list) : list[i] = x})

\* the entries of the first line of a file that starts with prefix
EntriesOf(lines, prefix) ==
    IF FirstLine(lines, prefix) = 0 THEN <<>>
    ELSE Entries(lines[FirstLine(lines, prefix)])

C16_InitramfsPatchIdempotent ==
    InitramfsPatched(2) =>
        \A n \in 3..Len(call.files) :
            /\ call.files[n] = call.files[2]
            /\ \A prefix \in {"HOOKS=", "MODULES="} :
                  LET once == EntriesOf(call.files[2], prefix)
                      again == EntriesOf(call.files[n], prefix)
                  IN  /\ again = once
                      /\ \A k \in 1..Len(again) :
                            Occurrences(again, again[k]) = Occurrences(once, again[k])

\* a file without zfs, patched twice for systemd-boot
C16_Witness ==
    /\ InitramfsPatched(2)
    /\ boot_manager.bootloader = "systemd-boot"
    /\ call.files[1] = <<"MODULES=()\n", "BINARIES=()\n", "HOOKS=(base filesystems)\n">>
    /\ call.files[3] = <<"MODULES=(zfs)\n", "BINARIES=()\n",
                         "HOOKS=(base zfs filesystems sd-vconsole sd-encrypt)\n">>

-----------------------------------------------------------------------------
(* C17 (stated as claimed): for every HOOKS list, after the patch the zfs   *)
(* hook is present; when the filesystems hook is present zfs appears        *)
(* strictly before it; when zfs was absent it was inserted immediately      *)
(* before filesystems, or appended to the list when filesystems is absent.  *)

C17_ZfsBeforeFilesystems ==
    (InitramfsPatched(1) /\ FirstLine(call.files[1], "HOOKS=") # 0) =>
        LET before == EntriesOf(call.files[1], "HOOKS=")
            after == EntriesOf(call.files[2], "HOOKS=")
        IN  /\ InSeq("zfs", after)
            /\ InSeq("filesystems", after)
                  => IndexOf(after, "zfs") < IndexOf(after, "filesystems")
            /\ (~InSeq("zfs", before) /\ InSeq("filesystems", before))
                  => /\ IndexOf(after, "zfs") = IndexOf(before, "filesystems")
                     /\ IndexOf(after, "filesystems") = IndexOf(after, "zfs") + 1
            /\ (~InSeq("zfs", before) /\ ~InSeq("filesystems", before))
                  => after[Len(before) + 1] = "zfs"

-----------------------------------------------------------------------------
(* _install_grub: the patch of /etc/default/grub                            *)
(* (utils/boot_manager.py 86-136)                                           *)

\* line.split("=")[1].strip().strip('"\''): the text between the first and
\* the second "=" of the line, without surrounding blanks and quotes
QuotedField(line) == Strip(Strip(SplitOn(line, "=")[2], Whitespace), {"\"", "'"})

\* GRUB_PRELOAD_MODULES (boot_manager.py 93-106)
PatchPreloadModules(lines) ==
    LET i == FirstLine(lines, "GRUB_PRELOAD_MODULES=")
    IN  IF i = 0 THEN Append(lines, "GRUB_PRELOAD_MODULES=\"part_gpt zfs\"\n")
        ELSE IF ~Contains(lines[i], "zfs")
        THEN [lines EXCEPT ![i] =
                "GRUB_PRELOAD_MODULES=\"" \o QuotedField(lines[i]) \o " zfs\"\n"]
        ELSE lines

\* GRUB_CMDLINE_LINUX (boot_manager.py 108-120)
PatchCmdlineLinux(lines, pool_name) ==
    LET i == FirstLine(lines, "GRUB_CMDLINE_LINUX=")
    IN  IF i = 0
        THEN Append(lines, "GRUB_CMDLINE_LINUX=\"zfs=" \o pool_name \o "/ROOT/arch\"\n")
        ELSE IF ~Contains(QuotedField(lines[i]), "zfs=")
        THEN [lines EXCEPT ![i] =
                "GRUB_CMDLINE_LINUX=\"" \o QuotedField(lines[i]) \o " zfs=" \o pool_name
                \o "/ROOT/arch\"\n"]
        ELSE lines

\* GRUB_DISABLE_OS_PROBER, for dual boot only (boot_manager.py 122-132)
PatchOsProber(lines, dual_boot) ==
    LET i == FirstLine(lines, "GRUB_DISABLE_OS_PROBER=")
    IN  IF ~dual_boot THEN lines
        ELSE IF i = 0 THEN Append(lines, "GRUB_DISABLE_OS_PROBER=false\n")
        ELSE [lines EXCEPT ![i] = "GRUB_DISABLE_OS_PROBER=false\n"]

\* /etc/default/grub as _install_grub writes it; a missing file is read as no
\* lines (boot_manager.py 86-136)
PatchGrubDefault(lines, bm) ==
    PatchOsProber(PatchCmdlineLinux(PatchPreloadModules(lines), bm.pool_name),
                  bm.dual_boot)

-----------------------------------------------------------------------------
(* _install_grub called on its own, and called again                        *)

PreloadLines ==
    {"GRUB_PRELOAD_MODULES=\"part_gpt part_msdos\"\n", "GRUB_PRELOAD_MODULES=\"part_gpt zfs\"\n",
     "#GRUB_PRELOAD_MODULES=\"part_gpt\"\n"}

CmdlineLines ==
    {"GRUB_CMDLINE_LINUX=\"\"\n", "GRUB_CMDLINE_LINUX=\"quiet\"\n",
     "GRUB_CMDLINE_LINUX='rw quiet'\n", "GRUB_CMDLINE_LINUX=\"loglevel=3 quiet\"\n",
     "GRUB_CMDLINE_LINUX=\"zfs=rpool/ROOT/arch\"\n"}

OsProberLines ==
    {"GRUB_DISABLE_OS_PROBER=true\n", "GRUB_DISABLE_OS_PROBER=false\n",
     "#GRUB_DISABLE_OS_PROBER=false\n"}

\* /etc/default/grub before the first call: missing, without the three lines,
\* or with a line of each kind
GrubDefaultFiles ==
    {<<>>, <<"GRUB_TIMEOUT=5\n">>}
    \cup {<<"GRUB_TIMEOUT=5\n", c, p, o>> :
             c \in CmdlineLines, p \in PreloadLines, o \in OsProberLines}

GrubInit ==
    /\ BeforeCall("_install_grub")
    /\ zfs_manager = ZFSManagerInit
    /\ boot_manager \in {[BootManagerInit EXCEPT !.pool_name = n, !.dual_boot = d] :
                            n \in {"rpool", "tank"}, d \in BOOLEAN}
    /\ \E f \in GrubDefaultFiles : call = [method |-> "_install_grub", files |-> <<f>>]

\* _install_grub() (boot_manager.py 70-154): the file is patched once the
\* packages are installed; call.files is the history of the contents of
\* /etc/default/grub, the last entry the current one
CallInstallGrub ==
    /\ pc = "call"
    /\ call.method = "_install_grub"
    /\ Len(call.files) <= MaxRuns
    /\ \E bad \in Bad(3) :
          LET c == InstallGrub(Ctx(cmds), boot_manager, bad)
              packages_installed == c.log[Len(cmds) + 1].ok
          IN  /\ cmds' = c.log
              /\ faults' = faults + NewFaults(c.log, Len(cmds))
              /\ raised' = IF c.st = "ok" THEN "" ELSE c.st
              /\ call' = IF packages_installed
                         THEN [call EXCEPT !.files =
                                 Append(@, PatchGrubDefault(call.files[Len(call.files)],
                                                            boot_manager))]
                         ELSE call
    /\ UNCHANGED <<pc, stage, exit_code, returned, disk_manager, zfs_manager,
                   boot_manager, system_config, installer, operator>>

GrubSpec == GrubInit /\ [][CallInstallGrub]_vars

-----------------------------------------------------------------------------
(* C18 (stated as claimed): the GRUB patch is idempotent.  Whatever         *)
(* /etc/default/grub held, a second call of _install_grub leaves the        *)
(* GRUB_PRELOAD_MODULES, GRUB_CMDLINE_LINUX and GRUB_DISABLE_OS_PROBER      *)
(* lines as the first call wrote them; and after a call the kernel command  *)
(* line carries exactly one zfs=<pool>/ROOT/arch parameter and the          *)
(* preload-modules line names zfs exactly once.                             *)

GrubPatched(n) == pc = "call" /\ call.method = "_install_grub" /\ Len(call.files) > n

\* the first line of a file that starts with prefix, "" if none
LineOf(lines, prefix) ==
    IF FirstLine(lines, prefix) = 0 THEN "" ELSE lines[FirstLine(lines, prefix)]

\* the words of the value of a NAME=value line: all the text after the first
\* "=", without surrounding blanks and quotes
ValueWords(line) ==
    LET eq == CHOOSE i \in 1..Len(line) : Char(line, i) = "=" /\ \A j \in 1..(i - 1) : Char(line, j) # "="
    IN  Words(Strip(Strip(SubSeq(line, eq + 1, Len(line)), Whitespace), {"\"", "'"}))

GrubLines == {"GRUB_PRELOAD_MODULES=", "GRUB_CMDLINE_LINUX=", "GRUB_DISABLE_OS_PROBER="}

C18_GrubPatchIdempotent ==
    /\ GrubPatched(1) =>
          \A n \in 2..Len(call.files) :
              /\ Occurrences(ValueWords(LineOf(call.files[n], "GRUB_CMDLINE_LINUX=")),
                             "zfs=" \o boot_manager.pool_name \o "/ROOT/arch") = 1
              /\ Occurrences(ValueWords(LineOf(call.files[n], "GRUB_PRELOAD_MODULES=")),
                             "zfs") = 1
    /\ GrubPatched(2) =>
          \A n \in 3..Len(call.files) : \A prefix \in GrubLines :
              LineOf(call.files[n], prefix) = LineOf(call.files[2], prefix)


-----------------------------------------------------------------------------
(* Failures that are warnings                                              *)

\* reflector ranks the mirrors (installer.py 163-175)
IsMirrorRanking(c) == c.argv[1] = "reflector"

\* "systemctl enable <service>" in the new system (system_config.py 203-218,
\* 404-408, 443-446)
IsServiceEnable(c) ==
    ChrootedTool(c) = "systemctl" /\ Len(c.argv) = 5 /\ c.argv[4] = "enable"

\* the command that exited non-zero and ended the run, if any: the last of
\* the history, since nothing is executed once an exception is in flight
EndedBy(Test(_)) ==
    /\ FatalError
    /\ cmds # <<>>
    /\ ~cmds[Len(cmds)].ok
    /\ Test(cmds[Len(cmds)])

\* C19: a failure of the mirrorlist ranking or of a command that enables a
\* service (a ZFS service, an additional service, or the service of the
\* network tool chosen in network configuration) is a warning: no run is
\* ended by the failure of such a command.
C19_WarningsDoNotEndTheRun ==
    ~EndedBy(IsMirrorRanking) /\ ~EndedBy(IsServiceEnable)


\* a command issued by import_pool: the import that writes the cache file
\* is issued by setup_zfs_cache itself (installer.py 226-231)
IsImportPoolCmd(c) == IsPoolImport(c) /\ ~InSeq("-o", c.argv)

\* command i of the history is an import or export of the pool, through
\* import_pool or export_pool, that exited non-zero
PoolCallFailed(i) ==
    /\ ~cmds[i].ok
    /\ IsImportPoolCmd(cmds[i]) \/ IsPoolExport(cmds[i])

\* the step that follows command i in the stage that issued it: after the
\* import of mount_filesystems the mountpoint of the root dataset is set,
\* after the export of setup_zfs_cache the pool is imported writing the
\* cache file; the import that ends setup_zfs_cache and the export that
\* ends _unmount_filesystems are followed by the return of the stage
NextStepTaken(i) ==
    IF IsImportPoolCmd(cmds[i]) /\ InSeq("-N", cmds[i].argv)
    THEN /\ i < Len(cmds)
         /\ cmds[i + 1].argv[1] = "zfs" /\ cmds[i + 1].argv[2] = "set"
    ELSE IF IsPoolExport(cmds[i]) /\ ~(i > 1 /\ IsDatasetUnmount(cmds[i - 1]))
    THEN /\ i < Len(cmds)
         /\ IsPoolImport(cmds[i + 1]) /\ InSeq("-o", cmds[i + 1].argv)
    ELSE i = Len(cmds) => ~FatalError /\ pc # "except"

\* C20: a failed import or export of the pool, encrypted or not, never
\* raises: no run is ended by it, and the stage that called import_pool or
\* export_pool (mount_filesystems, setup_zfs_cache, _unmount_filesystems)
\* goes on with its next step.
C20_PoolImportExportNeverRaise ==
    /\ ~EndedBy(IsImportPoolCmd)
    /\ ~EndedBy(IsPoolExport)
    /\ \A i \in 1..Len(cmds) : PoolCallFailed(i) => NextStepTaken(i)

\* the import of an encrypted pool failed in mount_filesystems and the
\* installation went on to its end
C20_Witness ==
    /\ installer.installation_complete
    /\ \E i \in 1..Len(cmds) :
          /\ PoolCallFailed(i)
          /\ cmds[i].piped
          /\ InSeq("-N", cmds[i].argv)


-----------------------------------------------------------------------------
(* Failures that are fatal                                                 *)

\* command i of the history exited non-zero and was issued by
\* _install_grub, _install_systemd_boot or configure_initramfs
BootCommandFailed(i) ==
    /\ ~cmds[i].ok
    /\ IsBootloaderCmd(cmds[i]) \/ IsInitramfsCmd(cmds[i])

\* C21: a non-zero exit of a command issued by the installation of the
\* bootloader (GRUB or systemd-boot) or by the configuration of the
\* initramfs is fatal: it is the last command of the run, the error leaves
\* the stage, installation_complete is not set and the process exits with
\* status 1.
C21_BootFailuresAreFatal ==
    \A i \in 1..Len(cmds) :
        BootCommandFailed(i) =>
            /\ i = Len(cmds)
            /\ raised = "Exception"
            /\ pc \in {"except", "exited"}
            /\ ~installer.installation_complete
            /\ exit_code = (IF pc = "exited" THEN 1 ELSE NoExit)

\* the initramfs could not be regenerated in finalize_installation and the
\* process has exited
C21_Witness ==
    /\ pc = "exited"
    /\ stage = "finalize_installation"
    /\ cmds # <<>>
    /\ BootCommandFailed(Len(cmds))
    /\ IsInitramfsCmd(cmds[Len(cmds)])


-----------------------------------------------------------------------------
(* The passphrase of an encrypted pool                                     *)

\* command c was given the stored passphrase on its standard input
GivenPassphrase(c) ==
    c.piped /\ c.input = zfs_manager.encryption_passphrase \o "\n"

\* the import that writes the cache file (installer.py 226-231)
IsCacheImport(c) == IsPoolImport(c) /\ InSeq("-o", c.argv)

\* C22 (stated as claimed): when encryption is enabled, every export and
\* every import of the pool, the import that writes the cache file
\* included, is given the stored passphrase on its standard input.
C22_EveryImportExportPiped ==
    zfs_manager.encryption =>
        \A i \in 1..Len(cmds) :
            IsPoolImport(cmds[i]) \/ IsPoolExport(cmds[i]) => GivenPassphrase(cmds[i])

\* C22 (as the code has it): when encryption is enabled, exactly the imports
\* issued through import_pool are given the stored passphrase on their
\* standard input; the exports and the import that writes the cache file
\* are run without input, as is every import of a pool that is not
\* encrypted.
C22_ImportPoolPiped ==
    \A i \in 1..Len(cmds) :
        /\ IsImportPoolCmd(cmds[i]) =>
              IF zfs_manager.encryption THEN GivenPassphrase(cmds[i])
              ELSE ~cmds[i].piped
        /\ IsPoolExport(cmds[i]) \/ IsCacheImport(cmds[i]) => ~cmds[i].piped

\* an encrypted pool was imported by import_pool, exported, and imported
\* again writing the cache file
C22_Witness ==
    /\ zfs_manager.encryption
    /\ \E i \in 1..Len(cmds) : IsImportPoolCmd(cmds[i]) /\ GivenPassphrase(cmds[i])
    /\ \E i \in 1..Len(cmds) : IsPoolExport(cmds[i])
    /\ \E i \in 1..Len(cmds) : IsCacheImport(cmds[i])


-----------------------------------------------------------------------------
(* The bootfs property                                                     *)

\* "zpool set bootfs=<dataset> <pool>" (zfs_manager.py 255)
IsBootfsSet(c) ==
    /\ Len(c.argv) = 4
    /\ c.argv[1] = "zpool" /\ c.argv[2] = "set"
    /\ StartsWith(c.argv[3], "bootfs=")

\* the dataset was created by a command before position i that exited zero
CreatedBefore(dataset, i) ==
    \E j \in 1..(i - 1) :
        IsDatasetCreate(cmds[j]) /\ LastArg(cmds[j]) = dataset /\ cmds[j].ok

-----------------------------------------------------------------------------
(* The partition map                                                       *)

\* the efi and zfs entries are set and distinct, and a boot entry that is
\* set differs from both
PartitionsDisjoint(partitions) ==
    /\ partitions.efi # None
    /\ partitions.zfs # None
    /\ partitions.efi # partitions.zfs
    /\ partitions.boot # None => partitions.boot \notin {partitions.efi, partitions.zfs}

\* C24 (stated as claimed): after create_partitions returned, under each of
\* the three schemes, the efi and zfs entries are set and distinct, a boot
\* entry that is set is distinct from both, and the boot entry is set if
\* and only if a separate boot partition was requested in
\* select_partition_scheme.
C24_PartitionMapAsRequested ==
    HasReturned("create_partitions") =>
        /\ PartitionsDisjoint(disk_manager.partitions)
        /\ disk_manager.partitions.boot # None <=> disk_manager.use_separate_boot

\* the answer that decides whether a boot entry is set: under the full
\* scheme the request of select_partition_scheme, under the manual and the
\* existing scheme the answer to "Are you using a separate /boot partition?"
BootPartitionWanted ==
    IF disk_manager.partition_scheme = "full" THEN disk_manager.use_separate_boot
    ELSE operator.disk.use_boot

\* C24 (as the code has it): after create_partitions returned, the efi and
\* zfs entries are set and distinct and a boot entry that is set is distinct
\* from both; the boot entry is set if and only if, under the full scheme, a
\* separate boot partition was requested, and under the manual or existing
\* scheme, the operator answered yes when create_partitions asked again.
C24_PartitionMapAsAnswered ==
    HasReturned("create_partitions") =>
        /\ PartitionsDisjoint(disk_manager.partitions)
        /\ disk_manager.partitions.boot # None <=> BootPartitionWanted

\* the manual scheme returned with a boot entry although none was requested
\* in select_partition_scheme
C24_Witness ==
    /\ HasReturned("create_partitions")
    /\ disk_manager.partition_scheme = "manual"
    /\ ~disk_manager.use_separate_boot
    /\ disk_manager.partitions.boot # None


-----------------------------------------------------------------------------
(* setup_pool, create_pool and create_datasets called in a row, for every  *)
(* answer the advanced options and the swap prompt accept                  *)

\* the choices of the ashift prompt (zfs_manager.py 97-101)
AshiftChoices == {9, 12, 13}

\* largest swap size the number prompt accepts, in GiB (zfs_manager.py 124)
MaxSwapGiB == 128

\* the sizes the number prompt accepts (zfs_manager.py 119-125)
SwapSizes == 1..MaxSwapGiB

\* answers to setup_pool: every combination of the advanced options, and
\* every swap size
PoolAnswerSets ==
    {[PoolPlain EXCEPT !.pool_type = t, !.advanced = adv, !.ashift = a,
                       !.autotrim = trim] :
        t \in PoolTypes, adv \in BOOLEAN, a \in AshiftChoices, trim \in BOOLEAN}
    \cup {[PoolPlain EXCEPT !.use_swap = u, !.swap_size = n] :
             u \in BOOLEAN, n \in SwapSizes}

PoolConfigInit ==
    /\ BeforeCall("setup_pool")
    /\ boot_manager = BootManagerInit
    /\ zfs_manager = ZFSManagerInit
    /\ \E ans \in PoolAnswerSets : call = [method |-> "setup_pool", answers |-> ans]

\* setup_pool() (zfs_manager.py 26-138), then main() hands the ZFS partition
\* to create_pool (main.py 48-49)
CallSetupPool ==
    /\ pc = "call"
    /\ call.method = "setup_pool"
    /\ LET r == SetupPoolFields(Ctx(cmds), zfs_manager, call.answers,
                                "", call.answers.confirmation)
       IN  zfs_manager' = r.zm
    /\ call' = [method |-> "create_pool", zfs_partitions |-> <<"/dev/sda2">>,
                answers |-> call.answers]
    /\ UNCHANGED <<pc, stage, raised, exit_code, cmds, faults, returned, disk_manager,
                   boot_manager, system_config, installer, operator>>

\* create_datasets() (zfs_manager.py 220-265) once the pool is created
CallCreateDatasets ==
    /\ pc = "returned"
    /\ call.method = "create_pool"
    /\ raised = ""
    /\ \E bad \in Bad(9) :
          LET r == CreateDatasetsCall(Ctx(cmds), zfs_manager, bad)
          IN  /\ cmds' = r.c.log
              /\ faults' = faults + NewFaults(r.c.log, Len(cmds))
              /\ raised' = IF r.c.st = "ok" THEN "" ELSE r.c.st
              /\ zfs_manager' = r.zm
    /\ pc' = "done"
    /\ call' = [call EXCEPT !.method = "create_datasets"]
    /\ UNCHANGED <<stage, exit_code, returned, disk_manager, boot_manager,
                   system_config, installer, operator>>

PoolConfigSpec ==
    PoolConfigInit /\ [][CallSetupPool \/ CallCreatePool \/ CallCreateDatasets]_vars

-----------------------------------------------------------------------------
(* The ashift option                                                       *)

\* the arguments of the command that begin with "ashift="
AshiftOptions(c) ==
    SelectSeq(c.argv, LAMBDA a : StartsWith(a, "ashift="))

\* the argument before argument k of the command
OptionFlag(c, value) ==
    c.argv[(CHOOSE k \in 1..Len(c.argv) : c.argv[k] = value) - 1]

\* C25: the ashift that setup_pool leaves is 9, 12 or 13, and 12 when the
\* advanced options were declined; the pool-creation command holds exactly
\* one option "ashift=<that value>", given with -o.
C25_AshiftOption ==
    /\ call.method # "setup_pool" =>
          /\ zfs_manager.ashift \in {9, 12, 13}
          /\ ~call.answers.advanced => zfs_manager.ashift = 12
          /\ call.answers.advanced => zfs_manager.ashift = call.answers.ashift
    /\ \A i \in 1..Len(cmds) :
          IsPoolCreate(cmds[i]) =>
              /\ AshiftOptions(cmds[i]) = <<"ashift=" \o ToString(zfs_manager.ashift)>>
              /\ OptionFlag(cmds[i], "ashift=" \o ToString(zfs_manager.ashift)) = "-o"

\* the pool was created with the ashift of 8K sectors chosen in the
\* advanced options
C25_Witness ==
    /\ pc = "returned"
    /\ call.answers.advanced
    /\ zfs_manager.ashift = 13
    /\ cmds # <<>> /\ IsPoolCreate(cmds[1]) /\ cmds[1].ok


-----------------------------------------------------------------------------
(* The swap volume                                                         *)

\* "zfs create -V <bytes> ... <pool>/swap" (zfs_manager.py 289-299)
IsSwapCreate(c) == IsDatasetCreate(c) /\ c.argv[3] = "-V"

\* n * 1073741824 in decimal digits; 1073741824 = 1073 * 10^6 + 741824
GiBInBytes(n) ==
    LET lo == n * 741824
        hi == n * 1073 + (lo \div 1000000)
        s == ToString(lo % 1000000)
    IN  ToString(hi) \o SubSeq("000000", 1, 6 - Len(s)) \o s

\* C26: for every swap size N from 1 to 128 GiB the command that creates
\* the swap volume asks for exactly N * 1073741824 bytes, and with a swap
\* size of 0 no command creates a swap volume or formats one.
C26_SwapSizeExact ==
    /\ \A i \in 1..Len(cmds) :
          IsSwapCreate(cmds[i]) =>
              /\ zfs_manager.swap_size \in 1..128
              /\ cmds[i].argv[4] = GiBInBytes(zfs_manager.swap_size)
              /\ LastArg(cmds[i]) = zfs_manager.pool_name \o "/swap"
    /\ zfs_manager.swap_size = 0 =>
          \A i \in 1..Len(cmds) : ~IsSwapCreate(cmds[i]) /\ cmds[i].argv[1] # "mkswap"
    /\ pc = "done" /\ raised = "" /\ zfs_manager.swap_size > 0 => Count(IsSwapCreate) = 1

\* create_datasets returned having created a swap volume of 128 GiB
C26_Witness ==
    /\ pc = "done"
    /\ raised = ""
    /\ zfs_manager.swap_size = 128
    /\ \E i \in 1..Len(cmds) : IsSwapCreate(cmds[i]) /\ cmds[i].argv[4] = "137438953472"


-----------------------------------------------------------------------------
(* Installer.cleanup called on its own, before or after finalize has set   *)
(* installation_complete                                                   *)

\* the ZFSManager before create_datasets returned and after
CleanupPools ==
    {ZFSManagerInit, [ZFSManagerInit EXCEPT !.datasets = DatasetMap(ZFSManagerInit)]}

\* the BootManager before setup_boot_directories and after, with and
\* without a separate boot partition
CleanupBootManagers ==
    {BootManagerInit,
     [BootManagerInit EXCEPT !.pool_name = "rpool", !.efi_partition = "/dev/sda1"],
     [BootManagerInit EXCEPT !.pool_name = "rpool", !.efi_partition = "/dev/sda1",
                             !.boot_partition = "/dev/sda2", !.separate_boot = TRUE]}

\* call.rmdir is what became of os.rmdir(root_mount): "not called",
\* "removed", or "OSError" when the directory is not empty or is missing
CleanupInit ==
    /\ pc = "call"
    /\ stage = "cleanup"
    /\ raised = ""
    /\ exit_code = NoExit
    /\ cmds = <<>>
    /\ faults = 0
    /\ returned = <<>>
    /\ disk_manager = DiskManagerInit
    /\ system_config = SystemConfigInit
    /\ operator = None
    /\ installer \in {[InstallerInit EXCEPT !.installation_complete = done] :
                         done \in BOOLEAN}
    /\ zfs_manager \in CleanupPools
    /\ boot_manager \in CleanupBootManagers
    /\ \E export \in BOOLEAN :
          call = [method |-> "cleanup", export |-> export, rmdir |-> "not called"]

\* cleanup() (installer.py 332-345): the failure of os.rmdir is ignored
CallCleanup ==
    /\ pc = "call"
    /\ call.method = "cleanup"
    /\ \E bad \in Bad(9), rmdir \in {"removed", "OSError"} :
          LET c == CleanupCall(Ctx(cmds), installer, zfs_manager, boot_manager,
                               call.export, bad)
          IN  /\ cmds' = c.log
              /\ faults' = faults + NewFaults(c.log, Len(cmds))
              /\ raised' = IF c.st = "ok" THEN "" ELSE c.st
              /\ call' = IF ~installer.installation_complete
                         THEN [call EXCEPT !.rmdir = rmdir]
                         ELSE call
    /\ pc' = "returned"
    /\ UNCHANGED <<stage, exit_code, returned, disk_manager, zfs_manager, boot_manager,
                   system_config, installer, operator>>

CleanupSpec == CleanupInit /\ [][CallCleanup]_vars

CleanupReturned == pc = "returned" /\ call.method = "cleanup"

\* C27 (stated as claimed): cleanup issues unmount commands and removes the
\* mount root if and only if installation_complete is false; with the flag
\* set it issues no command and changes nothing.
C27_CleanupGatedAndRemoves ==
    CleanupReturned =>
        /\ (Count(IsPartitionUnmount) > 0 /\ call.rmdir = "removed")
              <=> ~installer.installation_complete
        /\ installer.installation_complete => cmds = <<>> /\ call.rmdir = "not called"

\* C27 (as the code has it): cleanup issues unmount commands and calls
\* os.rmdir on the mount root if and only if installation_complete is
\* false, and returns normally whether or not the commands and the removal
\* succeed; the mount root is removed only when the flag is false and the
\* removal succeeds.  With the flag set cleanup issues no command and
\* changes nothing.
C27_CleanupGated ==
    CleanupReturned =>
        /\ raised = ""
        /\ (Count(IsPartitionUnmount) > 0 /\ call.rmdir # "not called")
              <=> ~installer.installation_complete
        /\ installer.installation_complete => cmds = <<>> /\ call.rmdir = "not called"

\* cleanup ran before completion, unmounted the datasets, and the mount
\* root was not empty
C27_Witness ==
    /\ CleanupReturned
    /\ ~installer.installation_complete
    /\ Count(IsDatasetUnmount) > 0
    /\ call.rmdir = "OSError"


-----------------------------------------------------------------------------
(* _configure_users called on its own, prompt by prompt: every password    *)
(* prompt is followed by its confirmation, and a confirmation that differs *)
(* restarts the prompts of the account                                     *)

\* most password prompts answered in one call
MaxPrompts == 3

\* what the operator may type at a password prompt or at its confirmation
TypedPasswords == {"root", "r00tpw", "hunter22"}

\* the root prompts as they would be if the confirmation were not compared
RootPasswordAttemptUnconfirmed(c, sc, password, confirm_password, bad) ==
    LET sc1 == [sc EXCEPT !.root_password = password]
    IN  ConfigResult(SetPassword(c, sc1, "root", password, bad), sc1)

\* the root prompts of _configure_users (system_config.py 238-255): the
\* password is stored, compared with its confirmation, and set when equal
RootPasswordAttempt(c, sc, password, confirm_password, bad) ==
    LET sc1 == [sc EXCEPT !.root_password = password]
    IN  IF confirm_password # password THEN ConfigResult(c, sc1)
        ELSE ConfigResult(SetPassword(c, sc1, "root", password, bad), sc1)

\* the prompts of _create_user (system_config.py 275-294) and, when the
\* confirmation is equal, the creation
CreateUserAttempt(c, sc, u, confirm_password, bad) ==
    IF confirm_password # u.password THEN ConfigResult(c, sc)
    ELSE CreateUser(c, sc, u, bad)

\* one answered pair of prompts: the account, what was typed, and the
\* positions of the commands issued before the next prompt
Prompted(account, password, confirm_password, log) ==
    [account |-> account, password |-> password, confirm_password |-> confirm_password,
     first |-> Len(cmds) + 1, last |-> Len(log)]

ConfigureUsersInit ==
    /\ BeforeCall("_configure_users")
    /\ zfs_manager = ZFSManagerInit
    /\ boot_manager = BootManagerInit
    /\ call = [method |-> "_configure_users", next |-> "root", prompts |-> <<>>]

\* a prompt may be answered wrongly only while another prompt can follow
MayMistype == Len(call.prompts) + 1 < MaxPrompts

\* "Enter root password" and "Confirm root password" (system_config.py
\* 238-255)
PromptRootPassword ==
    /\ pc = "call"
    /\ call.method = "_configure_users"
    /\ call.next = "root"
    /\ \E password \in Secret(TypedPasswords, MinPasswordLen),
          confirm_password \in TypedPasswords, bad \in Bad(1) :
          /\ confirm_password # password => MayMistype
          /\ LET r == RootPasswordAttempt(Ctx(cmds), system_config, password,
                                          confirm_password, bad)
             IN  /\ cmds' = r.c.log
                 /\ faults' = faults + NewFaults(r.c.log, Len(cmds))
                 /\ system_config' = r.sc
                 /\ call' = [call EXCEPT
                               !.next = IF confirm_password # password THEN "root"
                                        ELSE "confirm",
                               !.prompts = Append(@, Prompted("root", password,
                                                              confirm_password, r.c.log))]
    /\ UNCHANGED <<pc, stage, raised, exit_code, returned, disk_manager, zfs_manager,
                   boot_manager, installer, operator>>

\* "Create a regular user account?" and "Create another user account?"
\* (system_config.py 257-271)
AskCreateUser ==
    /\ pc = "call"
    /\ call.method = "_configure_users"
    /\ call.next = "confirm"
    /\ \E create_user \in BOOLEAN :
          /\ create_user => Len(call.prompts) < MaxPrompts
          /\ call' = [call EXCEPT !.next = IF create_user THEN "user" ELSE "done"]
          /\ pc' = IF create_user THEN "call" ELSE "returned"
    /\ UNCHANGED <<stage, raised, exit_code, cmds, faults, returned, disk_manager,
                   zfs_manager, boot_manager, system_config, installer, operator>>

\* the prompts of _create_user and what follows them (system_config.py
\* 273-368)
PromptCreateUser ==
    /\ pc = "call"
    /\ call.method = "_configure_users"
    /\ call.next = "user"
    /\ \E u \in {Alice, Bob}, confirm_password \in TypedPasswords \cup {Alice.password},
          bad \in Bad(4) :
          /\ confirm_password # u.password => MayMistype
          /\ LET r == CreateUserAttempt(Ctx(cmds), system_config, u, confirm_password, bad)
             IN  /\ cmds' = r.c.log
                 /\ faults' = faults + NewFaults(r.c.log, Len(cmds))
                 /\ system_config' = r.sc
                 /\ call' = [call EXCEPT
                               !.next = IF confirm_password # u.password THEN "user"
                                        ELSE "confirm",
                               !.prompts = Append(@, Prompted(u.username, u.password,
                                                              confirm_password, r.c.log))]
    /\ UNCHANGED <<pc, stage, raised, exit_code, returned, disk_manager, zfs_manager,
                   boot_manager, installer, operator>>

ConfigureUsersSpec ==
    ConfigureUsersInit /\ [][PromptRootPassword \/ AskCreateUser \/ PromptCreateUser]_vars

-----------------------------------------------------------------------------
(* Passwords and their confirmation                                        *)

\* useradd creates the account (system_config.py 349-353)
IsUserAdd(c) == ChrootedTool(c) = "useradd"

Mismatched(p) == p.confirm_password # p.password

\* the pair of prompts after which command i was issued
PromptOf(i) ==
    {k \in 1..Len(call.prompts) : call.prompts[k].first <= i /\ i <= call.prompts[k].last}

\* C28: for root and for every user, the command that sets the password is
\* issued only after a password of at least six characters and its
\* confirmation were equal, for that account and with that password; after
\* a confirmation that differs the prompts of the same account are asked
\* again, and no command that creates an account or sets a password is
\* issued for the attempt that differed.
C28_PasswordSetAfterConfirmation ==
    /\ \A i \in 1..Len(cmds) :
          IsPasswordCmd(cmds[i]) \/ IsUserAdd(cmds[i]) =>
              \E k \in PromptOf(i) :
                  LET p == call.prompts[k]
                  IN  /\ ~Mismatched(p)
                      /\ Len(p.password) >= 6
                      /\ LastArg(cmds[i]) = p.account
                      /\ IsPasswordCmd(cmds[i]) =>
                            cmds[i].input = p.password \o "\n" \o p.password \o "\n"
    /\ \A k \in 1..Len(call.prompts) :
          Mismatched(call.prompts[k]) =>
              /\ call.prompts[k].last < call.prompts[k].first
              /\ IF k < Len(call.prompts)
                 THEN (call.prompts[k].account = "root")
                          <=> (call.prompts[k + 1].account = "root")
                 ELSE call.next = (IF call.prompts[k].account = "root" THEN "root"
                                   ELSE "user")

\* the root password was confirmed at the second attempt, and a user was
\* created after a confirmation of their password
C28_Witness ==
    /\ Len(call.prompts) = 3
    /\ Mismatched(call.prompts[1])
    /\ ~Mismatched(call.prompts[2]) /\ call.prompts[2].account = "root"
    /\ ~Mismatched(call.prompts[3]) /\ call.prompts[3].account # "root"
    /\ \E i \in 1..Len(cmds) : IsPasswordCmd(cmds[i]) /\ LastArg(cmds[i]) = "alice"


-----------------------------------------------------------------------------
(* The module preload list                                                 *)

\* C29 (stated as claimed): after configure_initramfs has written
\* mkinitcpio.conf, the MODULES list names zfs exactly once, whatever the
\* file held before (a file without MODULES line and a missing file
\* included), and the modules that were listed are kept in their order.
C29_ModulesHasZfsOnce ==
    InitramfsPatched(1) =>
        LET before == EntriesOf(call.files[1], "MODULES=")
            after == EntriesOf(call.files[2], "MODULES=")
        IN  /\ Occurrences(after, "zfs") = 1
            /\ SelectSeq(after, LAMBDA m : m # "zfs")
                  = SelectSeq(before, LAMBDA m : m # "zfs")


-----------------------------------------------------------------------------
(* The initramfs and the bootloader                                        *)

\* grub-install, grub-mkconfig or "bootctl install"
IsBootloaderInstallation(c) ==
    IsBootloaderInstall(c) \/ ChrootedTool(c) = "grub-mkconfig"

\* C30 (stated as claimed): no command that installs the bootloader
\* (grub-install, grub-mkconfig, bootctl install) is issued before
\* configure_initramfs has patched the hook list and regenerated the
\* initramfs with mkinitcpio.
C30_InitramfsBeforeBootloader ==
    \A i \in 1..Len(cmds) :
        IsBootloaderInstallation(cmds[i]) =>
            \E j \in 1..(i - 1) : IsInitramfsCmd(cmds[j]) /\ cmds[j].ok


-----------------------------------------------------------------------------
(* The root dataset during finalize_installation.  create_datasets creates *)
(* the root dataset with canmount=noauto (zfs_manager.py 231-236): it is   *)
(* mounted only by the "zfs mount" of mount_filesystems (installer.py 37), *)
(* and an export of the pool unmounts it.                                  *)

RootDatasetName == RootDsName(zfs_manager)

IsRootDatasetMount(c) == IsDatasetMount(c) /\ c.ok /\ LastArg(c) = RootDatasetName

UnmountsRootDataset(c) ==
    /\ c.ok
    /\ \/ IsPoolExport(c)
       \/ IsDatasetUnmount(c) /\ LastArg(c) = RootDatasetName

\* the root dataset is mounted when command i of log is issued
RootMountedAt(log, i) ==
    \E j \in 1..(i - 1) :
        /\ IsRootDatasetMount(log[j])
        /\ \A k \in (j + 1)..(i - 1) : ~UnmountsRootDataset(log[k])

\* the export and the cache-file import of setup_zfs_cache both succeeded
\* before command i of log
CacheRebuiltBefore(log, i) ==
    \E j \in 2..(i - 1) :
        /\ IsCacheImport(log[j]) /\ log[j].ok
        /\ IsPoolExport(log[j - 1]) /\ log[j - 1].ok

\* the command runs inside the target root
WritesTargetRoot(c) == c.argv[1] = "arch-chroot"

\* C31 (stated as claimed): once the export and the cache-file import of
\* setup_zfs_cache have succeeded, every command that configure_initramfs,
\* the bootloader installation and the system configuration run inside the
\* target root is issued while the root dataset is mounted.
C31_RootMountedWhileWritten ==
    [][\A i \in (Len(cmds) + 1)..Len(cmds') :
          (WritesTargetRoot(cmds'[i]) /\ CacheRebuiltBefore(cmds', i))
              => RootMountedAt(cmds', i)]_vars


-----------------------------------------------------------------------------
(* The order of the boot-partition mounts of setup_boot_directories.        *)

\* a successful mount of a partition at the directory dir
MountsAt(c, dir) == IsPartitionMount(c) /\ c.ok /\ LastArg(c) = dir

\* C32 (stated as claimed): when a separate boot partition is used, the
\* partition mounted at <root>/boot is mounted before the EFI partition is
\* mounted at <root>/boot/efi, so that no later mount over <root>/boot
\* shadows the EFI partition.
C32_BootMountedBeforeEfi ==
    \A i, j \in 1..Len(cmds) :
        (/\ MountsAt(cmds[i], PathJoin(installer.root_mount, "boot/efi"))
         /\ MountsAt(cmds[j], PathJoin(installer.root_mount, "boot")))
            => j < i


-----------------------------------------------------------------------------
(* The parameters of the kernel command line across the GRUB patch          *)

\* the parameters of the GRUB_CMDLINE_LINUX line of a file, none when the
\* file has no such line
CmdlineParameters(lines) ==
    IF FirstLine(lines, "GRUB_CMDLINE_LINUX=") = 0 THEN {}
    ELSE LET words == ValueWords(LineOf(lines, "GRUB_CMDLINE_LINUX="))
         IN  {words[k] : k \in 1..Len(words)}

\* C33 (stated as claimed): the patch of the kernel command line keeps every
\* parameter the GRUB_CMDLINE_LINUX line held before the call, parameters of
\* the form key=value included, and adds nothing but the zfs= parameter.
C33_CmdlineParametersPreserved ==
    GrubPatched(1) =>
        LET before == CmdlineParameters(call.files[1])
            after == CmdlineParameters(call.files[2])
        IN  /\ before \subseteq after
            /\ after \subseteq before \cup {"zfs=" \o boot_manager.pool_name \o "/ROOT/arch"}


-----------------------------------------------------------------------------
(* The backing device of the pool main() creates                            *)

VdevKeywords == {"mirror", "raidz1", "raidz2"}

\* C34: every pool-creation command of a run of main() ends with the pool
\* name followed by exactly one device, the zfs partition of the partition
\* map, and carries no mirror or raidz keyword, whatever topology was
\* selected; at most one such command is issued.
C34_PoolOnOneDevice ==
    /\ \A i \in 1..Len(cmds) :
          IsPoolCreate(cmds[i]) =>
              LET argv == cmds[i].argv
              IN  /\ argv[Len(argv)] = disk_manager.partitions.zfs
                  /\ argv[Len(argv) - 1] = zfs_manager.pool_name
                  /\ \A k \in 1..Len(argv) : argv[k] \notin VdevKeywords
    /\ Count(IsPoolCreate) <= 1

\* a pool configured as mirror or raidz was created
C34_Witness ==
    /\ zfs_manager.pool_type \in VdevKeywords
    /\ \E i \in 1..Len(cmds) : IsPoolCreate(cmds[i]) /\ cmds[i].ok
    /\ pc = "exited"


-----------------------------------------------------------------------------
(* The erase confirmation of the full-disk scheme                           *)

\* the operator chose the full-disk scheme and declines the confirmation
ErasureDeclined == operator.disk.scheme = "full" /\ ~operator.disk.confirm_erase

\* C35: with the full-disk scheme and the erase confirmation declined,
\* create_partitions raises without issuing a command: the history holds
\* only the commands of select_disk, none of them a wipe, a partition
\* creation or a format; the partition map is as the constructor left it;
\* the exception is raised in create_partitions and the run exits with 1.
\* (A run interrupted at the prompt has not answered it.)
C35_DeclinedEraseIssuesNothing ==
    (ErasureDeclined /\ HasReturned("select_disk") /\ raised # "KeyboardInterrupt") =>
        /\ Len(cmds) = returned[ReturnAt("select_disk")].at
        /\ \A i \in 1..Len(cmds) :
              ~IsDestructive(cmds[i]) /\ cmds[i].argv[1] # "partprobe"
        /\ disk_manager.partitions = DiskManagerInit.partitions
        /\ \A part \in DOMAIN disk_manager.partitions : disk_manager.partitions[part] = None
        /\ pc \in {"create_partitions", "except", "exited"}
        /\ stage = "create_partitions"
        /\ pc # "create_partitions" => raised = "Exception"
        /\ pc = "exited" => exit_code = 1

\* the confirmation was declined and the run has ended
C35_Witness ==
    /\ ErasureDeclined
    /\ HasReturned("select_disk")
    /\ raised = "Exception"
    /\ pc = "exited"
    /\ exit_code = 1


-----------------------------------------------------------------------------
(* create_datasets called on its own, and cleanup called after it           *)

\* the pools create_datasets is called on: without and with a swap volume
DatasetPools ==
    {[ZFSManagerInit EXCEPT !.pool_name = n, !.swap_size = s] :
        n \in {"rpool", "tank"}, s \in {0, 2}}

\* call.at is the number of commands create_datasets issued, call.failed
\* whether it raised
DatasetsInit ==
    /\ BeforeCall("create_datasets")
    /\ zfs_manager \in DatasetPools
    /\ boot_manager \in CleanupBootManagers
    /\ \E export \in BOOLEAN :
          call = [method |-> "create_datasets", export |-> export,
                  rmdir |-> "not called", at |-> 0, failed |-> FALSE]

\* create_datasets() (zfs_manager.py 220-265)
CallCreateDatasetsAlone ==
    /\ pc = "call"
    /\ call.method = "create_datasets"
    /\ \E bad \in Bad(9) :
          LET r == CreateDatasetsCall(Ctx(cmds), zfs_manager, bad)
          IN  /\ cmds' = r.c.log
              /\ faults' = faults + NewFaults(r.c.log, Len(cmds))
              /\ raised' = IF r.c.st = "ok" THEN "" ELSE r.c.st
              /\ zfs_manager' = r.zm
              /\ call' = [call EXCEPT !.at = Len(r.c.log), !.failed = (r.c.st # "ok")]
    /\ pc' = "returned"
    /\ UNCHANGED <<stage, exit_code, returned, disk_manager, boot_manager,
                   system_config, installer, operator>>

\* cleanup() (installer.py 332-345) called once create_datasets has returned
\* or raised; one of its commands may fail
CallCleanupAfterDatasets ==
    /\ pc = "returned"
    /\ call.method = "create_datasets"
    /\ \E bad \in BadSets(Len(cmds) + 1, Len(cmds) + 9, 1), rmdir \in {"removed", "OSError"} :
          LET c == CleanupCall(Ctx(cmds), installer, zfs_manager, boot_manager,
                               call.export, bad)
          IN  /\ cmds' = c.log
              /\ faults' = faults + NewFaults(c.log, Len(cmds))
              /\ raised' = IF c.st = "ok" THEN "" ELSE c.st
              /\ call' = [call EXCEPT !.method = "cleanup", !.rmdir = rmdir]
    /\ pc' = "done"
    /\ UNCHANGED <<stage, exit_code, returned, disk_manager, zfs_manager, boot_manager,
                   system_config, installer, operator>>

DatasetsSpec == DatasetsInit /\ [][CallCreateDatasetsAlone \/ CallCleanupAfterDatasets]_vars

\* create_datasets ran to its end: every command it issued exited zero and
\* the last one set bootfs
DatasetsCompleted ==
    /\ call.at > 0
    /\ \A i \in 1..call.at : cmds[i].ok
    /\ IsBootfsSet(cmds[call.at])

\* C36: the dataset map is filled in exactly when create_datasets ran to its
\* end, with the swap entry set exactly when swap_size > 0; when
\* create_datasets failed the map is empty and the call raised, and a
\* cleanup called afterwards issues the unmount of the EFI partition, no
\* dataset unmount and no export, and returns without an exception.
C36_DatasetMapOnlyWhenComplete ==
    pc # "call" =>
        /\ DatasetsCompleted <=> ~call.failed
        /\ DatasetsCompleted =>
              /\ zfs_manager.datasets = DatasetMap(zfs_manager)
              /\ zfs_manager.datasets.root = zfs_manager.pool_name \o "/ROOT/arch"
              /\ zfs_manager.datasets.swap # None <=> zfs_manager.swap_size > 0
        /\ ~DatasetsCompleted => DOMAIN zfs_manager.datasets = {}
        /\ (pc = "done" /\ ~DatasetsCompleted) =>
              /\ raised = ""
              /\ Len(cmds) > call.at
              /\ cmds[call.at + 1].argv = <<"umount", PathJoin(boot_manager.root_mount, "boot/efi")>>
              /\ \A i \in (call.at + 1)..Len(cmds) :
                    /\ IsPartitionUnmount(cmds[i])
                    /\ ~IsDatasetUnmount(cmds[i])
                    /\ ~IsPoolExport(cmds[i])

\* create_datasets failed after its first command and cleanup has run
C36_Witness ==
    /\ pc = "done"
    /\ call.failed
    /\ call.at >= 2
    /\ Len(cmds) > call.at
    /\ DOMAIN zfs_manager.datasets = {}

====
